---- MODULE Spec2Model ----
(***************************************************************************)
(* Model of the serialization core of goenums (package enums): the         *)
(* primitive codec (anyToString / parseStringValue / anyToBinary /         *)
(* parseBinaryValue), the type-coercing GenericScanner, and the enum       *)
(* format codecs built on them.                                            *)
(*                                                                         *)
(* Representation.  Go integers are up to 64 bits wide and TLC integers    *)
(* are not, so an integer value is a sign and a big-endian magnitude of    *)
(* base-256 digits without leading zeros.  A Go string and a []byte are    *)
(* both sequences of byte codes (0..255); "Active" is <<65,99,116,...>>.   *)
(* A dynamically typed Go value (any) is a record [kind, val].             *)
(***************************************************************************)
EXTENDS Integers, Sequences, FiniteSets, TLC

(***************************************************************************)
(* Arbitrary-width integers                                                *)
(***************************************************************************)
RECURSIVE Strip(_)
Strip(s) == IF s = <<>> THEN <<>>
            ELSE IF s[1] = 0 THEN Strip(Tail(s)) ELSE s

Zeros(n) == [i \in 1..n |-> 0]

\* the low w bytes of a magnitude, zero-extended on the left
Pad(s, w) == IF Len(s) >= w THEN SubSeq(s, Len(s) - w + 1, Len(s))
             ELSE Zeros(w - Len(s)) \o s

MagLess(a, b) ==
    \/ Len(a) < Len(b)
    \/ /\ Len(a) = Len(b)
       /\ \E i \in 1..Len(a) : a[i] < b[i] /\ \A j \in 1..(i - 1) : a[j] = b[j]

Big(n, m) == [neg |-> n, mag |-> m]
BigZero == Big(FALSE, <<>>)
BigOne == Big(FALSE, <<1>>)

\* x < y on signed big values
BigLess(x, y) ==
    IF x.neg /\ ~y.neg THEN TRUE
    ELSE IF ~x.neg /\ y.neg THEN FALSE
    ELSE IF x.neg THEN MagLess(y.mag, x.mag)
    ELSE MagLess(x.mag, y.mag)

BigLeq(x, y) == x = y \/ BigLess(x, y)

RECURSIVE Pow(_, _)
Pow(b, e) == IF e = 0 THEN 1 ELSE b * Pow(b, e - 1)

\* 2^n as a magnitude
Pow2Mag(n) == <<Pow(2, n % 8)>> \o Zeros(n \div 8)

\* 2^n - 1 for n a multiple of 8
AllOnes(n) == [i \in 1..(n \div 8) |-> 255]

\* a small natural number as a magnitude
RECURSIVE NatMag(_)
NatMag(n) == IF n = 0 THEN <<>> ELSE Append(NatMag(n \div 256), n % 256)

SmallBig(n) == IF n < 0 THEN Big(TRUE, NatMag(0 - n)) ELSE Big(FALSE, NatMag(n))

\* add one to a fixed-width byte sequence, wrapping at the width
RECURSIVE Inc(_)
Inc(s) == IF s = <<>> THEN <<>>
          ELSE LET n == Len(s)
               IN IF s[n] = 255 THEN Append(Inc(SubSeq(s, 1, n - 1)), 0)
                  ELSE [s EXCEPT ![n] = s[n] + 1]

\* two's-complement negation of a fixed-width byte sequence
Neg2c(s) == Inc([i \in DOMAIN s |-> 255 - s[i]])

\* the w-byte two's-complement pattern of x (x mod 2^(8w))
ToBytes(x, w) == IF x.neg THEN Neg2c(Pad(x.mag, w)) ELSE Pad(x.mag, w)

FromUnsigned(bs) == Big(FALSE, Strip(bs))

FromSigned(bs) == IF bs # <<>> /\ bs[1] >= 128
                  THEN Big(TRUE, Strip(Neg2c(bs)))
                  ELSE Big(FALSE, Strip(bs))

\* long division of a magnitude by a small divisor
RECURSIVE DivStep(_, _, _, _)
DivStep(s, d, rem, q) ==
    IF s = <<>> THEN [q |-> Strip(q), r |-> rem]
    ELSE LET cur == rem * 256 + Head(s)
         IN DivStep(Tail(s), d, cur % d, Append(q, cur \div d))

\* magnitude * k + carry for small k
RECURSIVE MulAdd(_, _, _)
MulAdd(s, k, carry) ==
    IF s = <<>> THEN NatMag(carry)
    ELSE LET n == Len(s)
             cur == s[n] * k + carry
         IN Append(MulAdd(SubSeq(s, 1, n - 1), k, cur \div 256), cur % 256)

(***************************************************************************)
(* Primitive kinds                                                         *)
(***************************************************************************)
SignedKinds == {"int8", "int16", "int32", "int64", "int"}
UnsignedKinds == {"uint8", "uint16", "uint32", "uint64", "uint"}
IntKinds == SignedKinds \cup UnsignedKinds
FloatKinds == {"float32", "float64"}

\* the platform's int and uint are 64 bits wide
IntSize == 64

BitSize(k) ==
    CASE k \in {"int8", "uint8"} -> 8
      [] k \in {"int16", "uint16"} -> 16
      [] k \in {"int32", "uint32", "float32"} -> 32
      [] k \in {"int64", "uint64", "float64"} -> 64
      [] k \in {"int", "uint"} -> IntSize

\* math.MinIntN / math.MaxIntN / math.MaxUintN
MinOf(k) == IF k \in SignedKinds THEN Big(TRUE, Pow2Mag(BitSize(k) - 1)) ELSE BigZero
MaxOf(k) == IF k \in SignedKinds THEN Big(FALSE, <<127>> \o AllOnes(BitSize(k) - 8))
            ELSE Big(FALSE, AllOnes(BitSize(k)))

(***************************************************************************)
(* Dynamically typed values: V(kind, val).  An integer kind holds a big    *)
(* value, bool a BOOLEAN, string and bytes a byte sequence, a float kind   *)
(* its IEEE-754 bit pattern as 4 or 8 big-endian bytes, nil nothing.       *)
(***************************************************************************)
V(k, v) == [kind |-> k, val |-> v]
NilValue == V("nil", <<>>)

\* Go's integer conversion K(x): keep the low bits, reinterpret
Conv(k, x) == IF k \in SignedKinds THEN FromSigned(ToBytes(x, BitSize(k) \div 8))
              ELSE FromUnsigned(ToBytes(x, BitSize(k) \div 8))

InRange(k, x) == BigLeq(MinOf(k), x) /\ BigLeq(x, MaxOf(k))

(***************************************************************************)
(* Floats.  The numeric meaning of a bit pattern is modelled on the grid   *)
(* of multiples of 1/4 with magnitude below 2^MantBits/4: q counts         *)
(* quarters, so 12.5 is q = 50.                                            *)
(***************************************************************************)
ExpBits(k) == IF k = "float32" THEN 8 ELSE 11
\* the leading mantissa bits kept in the first three bytes of the pattern
MantBits(k) == 23 - ExpBits(k)
Bias(k) == Pow(2, ExpBits(k) - 1) - 1

RECURSIVE Log2(_)
Log2(n) == IF n <= 1 THEN 0 ELSE 1 + Log2(n \div 2)

Abs(n) == IF n < 0 THEN 0 - n ELSE n

\* math.Float32bits / math.Float64bits of q/4, as big-endian bytes
FloatBits(k, q) ==
    IF q = 0 THEN Zeros(BitSize(k) \div 8)
    ELSE LET n == Abs(q)
             L == Log2(n)
             e == L - 2 + Bias(k)
             m == (n - Pow(2, L)) * Pow(2, MantBits(k) - L)
             top == Pad(NatMag(e * Pow(2, MantBits(k)) + m), 3)
             signed == IF q < 0 THEN [top EXCEPT ![1] = top[1] + 128] ELSE top
         IN signed \o Zeros(BitSize(k) \div 8 - 3)

\* the patterns that denote a grid value
OnGrid(k, bits) ==
    /\ Len(bits) = BitSize(k) \div 8
    /\ \A i \in 4..Len(bits) : bits[i] = 0
    /\ LET t == (bits[1] % 128) * 65536 + bits[2] * 256 + bits[3]
           e == t \div Pow(2, MantBits(k))
           m == t % Pow(2, MantBits(k))
           L == e - Bias(k) + 2
       IN \/ t = 0 /\ bits[1] < 128
          \/ /\ L \in 0..MantBits(k)
             /\ m % Pow(2, MantBits(k) - L) = 0

\* the number of quarters a grid pattern denotes
Quarters(k, bits) ==
    LET t == (bits[1] % 128) * 65536 + bits[2] * 256 + bits[3]
        e == t \div Pow(2, MantBits(k))
        m == t % Pow(2, MantBits(k))
        L == e - Bias(k) + 2
        n == Pow(2, L) + m \div Pow(2, MantBits(k) - L)
    IN IF t = 0 THEN 0
       ELSE IF bits[1] >= 128 THEN 0 - n ELSE n

\* float64(f32) and float32(f64) on grid values
FloatConv(k, v) == V(k, FloatBits(k, Quarters(v.kind, v.val)))

\* int64(math.Round(f)): rounding to nearest
RoundFloat(v) ==
    LET q == Quarters(v.kind, v.val)
    IN IF q < 0 THEN SmallBig(0 - ((Abs(q) + 2) \div 4)) ELSE SmallBig((q + 2) \div 4)

\* int64(f): truncation toward zero
TruncFloat(v) ==
    LET q == Quarters(v.kind, v.val)
    IN IF q < 0 THEN SmallBig(0 - (Abs(q) \div 4)) ELSE SmallBig(q \div 4)

(***************************************************************************)
(* strconv                                                                 *)
(***************************************************************************)
IsDigit(c) == c \in 48..57

RECURSIVE DigitsMag(_, _)
DigitsMag(s, acc) ==
    IF s = <<>> THEN acc
    ELSE DigitsMag(Tail(s), Strip(MulAdd(acc, 10, Head(s) - 48)))

RECURSIVE FormatMag(_)
FormatMag(m) ==
    IF m = <<>> THEN <<>>
    ELSE LET dm == DivStep(m, 10, 0, <<>>)
         IN Append(FormatMag(dm.q), 48 + dm.r)

\* strconv.FormatUint(u, 10)
FormatUint(x) == IF x.mag = <<>> THEN <<48>> ELSE FormatMag(x.mag)

\* strconv.FormatInt(i, 10)
FormatInt(x) == IF x.neg THEN <<45>> \o FormatMag(x.mag) ELSE FormatUint(x)

\* strconv.ParseUint(s, 10, bitSize)
ParseUint(s, bitSize) ==
    IF s = <<>> \/ \E i \in 1..Len(s) : ~IsDigit(s[i])
    THEN [err |-> "syntax", val |-> BigZero]
    ELSE LET m == DigitsMag(s, <<>>)
         IN IF MagLess(AllOnes(bitSize), m)
            THEN [err |-> "range", val |-> Big(FALSE, AllOnes(bitSize))]
            ELSE [err |-> "nil", val |-> Big(FALSE, m)]

\* strconv.ParseInt(s, 10, bitSize)
ParseInt(s, bitSize) ==
    IF s = <<>> THEN [err |-> "syntax", val |-> BigZero]
    ELSE LET neg == s[1] = 45
             rest == IF s[1] \in {43, 45} THEN Tail(s) ELSE s
             un == ParseUint(rest, bitSize)
             cutoff == Pow2Mag(bitSize - 1)
         IN IF un.err = "syntax" THEN [err |-> "syntax", val |-> BigZero]
            ELSE IF ~neg /\ ~MagLess(un.val.mag, cutoff)
                 THEN [err |-> "range", val |-> Big(FALSE, <<127>> \o AllOnes(bitSize - 8))]
            ELSE IF neg /\ MagLess(cutoff, un.val.mag)
                 THEN [err |-> "range", val |-> Big(TRUE, cutoff)]
            ELSE [err |-> "nil",
                  val |-> IF un.val.mag = <<>> THEN BigZero ELSE Big(neg, un.val.mag)]

\* the texts the model names; a field holds the bytes of the text: upTRUE is
\* TRUE, n12p5 is 12.5, m129 is -129, p5 is +5, sp1 is " 1", n007 is 007,
\* two63 is 9223372036854775808, qActive is "Active" in quotes, typeOpen is
\* status(, time is 2006-01-02T15:04:05Z
Lit ==
    [ upTRUE |-> <<84, 82, 85, 69>>,
      upFALSE |-> <<70, 65, 76, 83, 69>>,
      capTrue |-> <<84, 114, 117, 101>>,
      capFalse |-> <<70, 97, 108, 115, 101>>,
      t |-> <<116>>,
      capT |-> <<84>>,
      f |-> <<102>>,
      capF |-> <<70>>,
      Pending |-> <<80, 101, 110, 100, 105, 110, 103>>,
      Active |-> <<65, 99, 116, 105, 118, 101>>,
      Done |-> <<68, 111, 110, 101>>,
      Nope |-> <<78, 111, 112, 101>>,
      test |-> <<116, 101, 115, 116>>,
      n99 |-> <<57, 57>>,
      n300 |-> <<51, 48, 48>>,
      n1000 |-> <<49, 48, 48, 48>>,
      n256 |-> <<50, 53, 54>>,
      n255 |-> <<50, 53, 53>>,
      m128 |-> <<45, 49, 50, 56>>,
      m129 |-> <<45, 49, 50, 57>>,
      n127 |-> <<49, 50, 55>>,
      n128 |-> <<49, 50, 56>>,
      p5 |-> <<43, 53>>,
      n007 |-> <<48, 48, 55>>,
      n12p5 |-> <<49, 50, 46, 53>>,
      sp1 |-> <<32, 49>>,
      notnum |-> <<110, 111, 116, 95, 97, 95, 110, 117, 109, 98, 101, 114>>,
      maxi64 |-> <<57, 50, 50, 51, 51, 55, 50, 48, 51, 54, 56, 53, 52, 55, 55, 53, 56, 48, 55>>,
      mini64 |-> <<45, 57, 50, 50, 51, 51, 55, 50, 48, 51, 54, 56, 53, 52, 55, 55, 53, 56, 48, 56>>,
      two63 |-> <<57, 50, 50, 51, 51, 55, 50, 48, 51, 54, 56, 53, 52, 55, 55, 53, 56, 48, 56>>,
      maxu64 |-> <<49, 56, 52, 52, 54, 55, 52, 52, 48, 55, 51, 55, 48, 57, 53, 53, 49, 54, 49, 53>>,
      two64 |-> <<49, 56, 52, 52, 54, 55, 52, 52, 48, 55, 51, 55, 48, 57, 53, 53, 49, 54, 49, 54>>,
      qActive |-> <<34, 65, 99, 116, 105, 118, 101, 34>>,
      qNope |-> <<34, 78, 111, 112, 101, 34>>,
      time |-> <<50, 48, 48, 54, 45, 48, 49, 45, 48, 50, 84, 49, 53, 58, 48, 52, 58, 48, 53, 90>>,
      typeOpen |-> <<115, 116, 97, 116, 117, 115, 40>> ]

S_true == <<116, 114, 117, 101>>
S_false == <<102, 97, 108, 115, 101>>
S_1 == <<49>>
S_0 == <<48>>
S_null == <<110, 117, 108, 108>>

\* strconv.FormatBool
FormatBool(b) == IF b THEN S_true ELSE S_false

\* a ParseBool that reads the first character alone
ParseBoolFirst(s) ==
    IF s # <<>> /\ s[1] \in {49, 116, 84} THEN [err |-> "nil", val |-> TRUE]
    ELSE IF s # <<>> /\ s[1] \in {48, 102, 70} THEN [err |-> "nil", val |-> FALSE]
    ELSE [err |-> "syntax", val |-> FALSE]

\* strconv.ParseBool
ParseBool(s) ==
    IF s \in {S_1, Lit.t, Lit.capT, Lit.upTRUE, S_true, Lit.capTrue} THEN [err |-> "nil", val |-> TRUE]
    ELSE IF s \in {S_0, Lit.f, Lit.capF, Lit.upFALSE, S_false, Lit.capFalse} THEN [err |-> "nil", val |-> FALSE]
    ELSE [err |-> "syntax", val |-> FALSE]

\* strconv.FormatFloat(f, 'f', -1, bitSize) of a grid value: the shortest
\* decimal that reads back as f is its exact expansion
FormatFloat(k, bits) ==
    LET q == Quarters(k, bits)
        n == Abs(q)
        whole == FormatUint(SmallBig(n \div 4))
        frac == CASE n % 4 = 0 -> <<>>
                  [] n % 4 = 1 -> <<46, 50, 53>>
                  [] n % 4 = 2 -> <<46, 53>>
                  [] n % 4 = 3 -> <<46, 55, 53>>
    IN (IF q < 0 THEN <<45>> ELSE <<>>) \o whole \o frac

RECURSIVE StripTrailingZeros(_)
StripTrailingZeros(s) ==
    IF s # <<>> /\ s[Len(s)] = 48 THEN StripTrailingZeros(SubSeq(s, 1, Len(s) - 1)) ELSE s

\* index of the first '.' in s, or 0
DotAt(s) == IF \E i \in 1..Len(s) : s[i] = 46
            THEN CHOOSE i \in 1..Len(s) : s[i] = 46 /\ \A j \in 1..(i - 1) : s[j] # 46
            ELSE 0

\* strconv.ParseFloat(s, bitSize) on plain decimal text (sign, digits,
\* optional point, digits).  err "offgrid" marks a numeral whose value is
\* not a grid value; callers of the model never pass one.
ParseFloat(s, k) ==
    LET neg == s # <<>> /\ s[1] = 45
        body == IF s # <<>> /\ s[1] \in {43, 45} THEN Tail(s) ELSE s
        dot == DotAt(body)
        ip == IF dot = 0 THEN body ELSE SubSeq(body, 1, dot - 1)
        fp == IF dot = 0 THEN <<>> ELSE SubSeq(body, dot + 1, Len(body))
        digitsOnly == \A i \in 1..Len(ip \o fp) : IsDigit((ip \o fp)[i])
        f == StripTrailingZeros(fp)
        im == DigitsMag(ip, <<>>)
    IN IF ip \o fp = <<>> \/ ~digitsOnly THEN [err |-> "syntax", val |-> <<>>]
       ELSE IF f \notin {<<>>, <<50, 53>>, <<53>>, <<55, 53>>} \/ Len(im) > 2
            THEN [err |-> "offgrid", val |-> <<>>]
       ELSE LET whole == CASE Len(im) = 0 -> 0
                           [] Len(im) = 1 -> im[1]
                           [] Len(im) = 2 -> im[1] * 256 + im[2]
                r == CASE f = <<>> -> 0 [] f = <<50, 53>> -> 1
                       [] f = <<53>> -> 2 [] f = <<55, 53>> -> 3
                n == whole * 4 + r
            IN IF n >= Pow(2, MantBits(k) + 1) THEN [err |-> "offgrid", val |-> <<>>]
               ELSE [err |-> "nil", val |-> FloatBits(k, IF neg THEN 0 - n ELSE n)]

(***************************************************************************)
(* Errors.  An error is its message kind and the values the message        *)
(* formats; NoErr is Go's nil error.                                       *)
(***************************************************************************)
Err(t, a) == [type |-> t, args |-> a]
NoErr == Err("nil", <<>>)
TypeName(k) == V("type", k)

\* the result of a call that writes through a pointer: the error and the
\* value the pointee holds afterwards
Res(e, v) == [err |-> e, val |-> v]

(***************************************************************************)
(* encoding/binary.BigEndian                                               *)
(***************************************************************************)
\* binary.LittleEndian's PutUint16 / PutUint32 / PutUint64
PutUintLittle(w, u) == [i \in 1..w |-> Pad(u.mag, w)[w + 1 - i]]

\* PutUint16 / PutUint32 / PutUint64 into a fresh w-byte buffer
PutUint(w, u) == Pad(u.mag, w)

\* Uint16 / Uint32 / Uint64: reads the first w bytes
Uint(w, data) == FromUnsigned(SubSeq(data, 1, w))

UnsignedOf(k) == CASE BitSize(k) = 8 -> "uint8" [] BitSize(k) = 16 -> "uint16"
                   [] BitSize(k) = 32 -> "uint32" [] BitSize(k) = 64 -> "uint64"

(***************************************************************************)
(* utils.go: the primitive codec                                           *)
(***************************************************************************)
\* encoding/json.Marshal of the values the default branches can meet
jsonMarshal(value) ==
    IF value.kind = "nil" THEN [str |-> S_null, err |-> NoErr]
    ELSE [str |-> <<>>, err |-> Err("json: unsupported type", <<TypeName(value.kind)>>)]

\* anyToString with the signed cases sent through FormatUint(uint64(v))
anyToStringUnsigned(value) ==
    LET k == value.kind
    IN CASE k \in IntKinds -> [str |-> FormatUint(Conv("uint64", value.val)), err |-> NoErr]
         [] k \in FloatKinds -> [str |-> FormatFloat(k, value.val), err |-> NoErr]
         [] k = "bool" -> [str |-> FormatBool(value.val), err |-> NoErr]
         [] k \in {"string", "bytes"} -> [str |-> value.val, err |-> NoErr]
         [] OTHER -> jsonMarshal(value)

anyToString(value) ==
    LET k == value.kind
    IN CASE k \in SignedKinds -> [str |-> FormatInt(Conv("int64", value.val)), err |-> NoErr]
         [] k \in UnsignedKinds -> [str |-> FormatUint(Conv("uint64", value.val)), err |-> NoErr]
         [] k \in FloatKinds -> [str |-> FormatFloat(k, value.val), err |-> NoErr]
         [] k = "bool" -> [str |-> FormatBool(value.val), err |-> NoErr]
         [] k = "string" -> [str |-> value.val, err |-> NoErr]
         [] k = "bytes" -> [str |-> value.val, err |-> NoErr]
         [] OTHER -> jsonMarshal(value)

\* every integer case parsing with bitSize 64
ParseBits64(k) == 64

\* the bitSize each integer case passes to strconv
ParseBits(k) == IF k \in {"int", "uint"} THEN 64 ELSE BitSize(k)

parseStringValue(str, value) ==
    LET k == value.kind
    IN CASE k \in SignedKinds ->
              LET parsed == ParseInt(str, ParseBits(k))
              IN IF parsed.err # "nil" THEN Res(Err(parsed.err, <<V("string", str)>>), value.val)
                 ELSE Res(NoErr, Conv(k, parsed.val))
         [] k \in UnsignedKinds ->
              LET parsed == ParseUint(str, ParseBits(k))
              IN IF parsed.err # "nil" THEN Res(Err(parsed.err, <<V("string", str)>>), value.val)
                 ELSE Res(NoErr, Conv(k, parsed.val))
         [] k \in FloatKinds ->
              LET parsed == ParseFloat(str, k)
              IN IF parsed.err # "nil" THEN Res(Err(parsed.err, <<V("string", str)>>), value.val)
                 ELSE Res(NoErr, parsed.val)
         [] k = "bool" ->
              LET parsed == ParseBool(str)
              IN IF parsed.err # "nil" THEN Res(Err(parsed.err, <<V("string", str)>>), value.val)
                 ELSE Res(NoErr, parsed.val)
         [] k = "string" -> Res(NoErr, str)
         [] k = "bytes" -> Res(NoErr, str)
         [] OTHER -> Res(Err("json: cannot unmarshal", <<TypeName(k)>>), value.val)

\* BinWidth with int and uint taken to be 32 bits wide
BinWidth32(k) == IF k \in {"int", "uint"} THEN 4 ELSE BitSize(k) \div 8

\* the number of bytes each fixed-width case writes and requires
BinWidth(k) == BitSize(k) \div 8

anyToBinary(value) ==
    LET k == value.kind
    IN CASE k \in IntKinds ->
              [data |-> PutUint(BinWidth(k), Conv(UnsignedOf(k), value.val)), err |-> NoErr]
         [] k \in FloatKinds ->
              [data |-> PutUint(BinWidth(k), FromUnsigned(value.val)), err |-> NoErr]
         [] k = "bool" -> [data |-> IF value.val THEN <<1>> ELSE <<0>>, err |-> NoErr]
         [] k = "string" -> [data |-> value.val, err |-> NoErr]
         [] k = "bytes" -> [data |-> value.val, err |-> NoErr]
         [] OTHER -> LET m == jsonMarshal(value) IN [data |-> m.str, err |-> m.err]

\* the type switch of parseBinaryValue
parseBinaryValueSwitch(data, value) ==
    LET k == value.kind
        w == BinWidth(k)
    IN CASE k \in IntKinds ->
              IF Len(data) < w THEN Res(Err("insufficient data", <<TypeName(k)>>), value.val)
              ELSE Res(NoErr, Conv(k, Uint(w, data)))
         [] k \in FloatKinds ->
              IF Len(data) < w THEN Res(Err("insufficient data", <<TypeName(k)>>), value.val)
              ELSE Res(NoErr, Pad(Uint(w, data).mag, w))
         [] k = "bool" ->
              IF Len(data) < 1 THEN Res(Err("insufficient data", <<TypeName(k)>>), value.val)
              ELSE Res(NoErr, data[1] # 0)
         [] k = "string" -> Res(NoErr, data)
         [] k = "bytes" -> Res(NoErr, data)
         [] OTHER -> Res(Err("json: cannot unmarshal", <<TypeName(k)>>), value.val)

\* parseBinaryValue with the empty check skipped for string and []byte
parseBinaryValueLenient(data, value) ==
    IF Len(data) = 0 /\ value.kind \notin {"string", "bytes"}
    THEN Res(Err("empty binary data", <<>>), value.val)
    ELSE parseBinaryValueSwitch(data, value)

parseBinaryValue(data, value) ==
    IF Len(data) = 0 THEN Res(Err("empty binary data", <<>>), value.val)
    ELSE parseBinaryValueSwitch(data, value)

(***************************************************************************)
(* sql.go: GenericScanner                                                  *)
(*                                                                         *)
(* Source kinds beyond the primitives: "nil" (untyped nil), "nilptr" (a    *)
(* typed nil pointer), "ints" (a slice whose elements are not bytes),      *)
(* "struct" (any other value) and "time" (time.Time, an opaque instant).   *)
(***************************************************************************)

\* time.Parse(time.RFC3339Nano, s)
TimeParse(s) == IF s = Lit.time THEN [err |-> "nil", val |-> 1] ELSE [err |-> "parse", val |-> 0]

\* float64(i) for an integer small enough to be a grid value
IntOnGrid(x) == Len(x.mag) <= 1
IntToFloat(k, x) ==
    LET n == IF x.mag = <<>> THEN 0 ELSE x.mag[1] * 4
    IN FloatBits(k, IF x.neg THEN 0 - n ELSE n)

\* scanString with a boolean source formatted instead of refused
scanStringFormatting(src, value) ==
    CASE src.kind = "nilptr" -> Res(NoErr, value.val)
      [] src.kind \in {"string", "bytes"} -> Res(NoErr, src.val)
      [] src.kind = "bool" -> Res(NoErr, FormatBool(src.val))
      [] OTHER -> Res(Err("cannot convert to string", <<TypeName(src.kind)>>), value.val)

scanString(src, value) ==
    CASE src.kind = "nilptr" -> Res(NoErr, value.val)
      [] src.kind = "string" -> Res(NoErr, src.val)
      [] src.kind = "bytes" -> Res(NoErr, src.val)
      [] src.kind = "ints" -> Res(Err("cannot convert slice to string", <<TypeName("int")>>), value.val)
      [] OTHER -> Res(Err("cannot convert to string", <<TypeName(src.kind)>>), value.val)

\* the second switch of scanInt: range check against the target, then store
\* scanIntStore storing the converted value before it checks the range
scanIntStoreFirst(i, value) ==
    IF value.kind \notin IntKinds
    THEN Res(Err("unsupported integer type", <<TypeName(value.kind)>>), value.val)
    ELSE IF BigLess(MaxOf(value.kind), i) \/ BigLess(i, MinOf(value.kind))
    THEN Res(Err("value overflows", <<V("int64", i), TypeName(value.kind)>>), Conv(value.kind, i))
    ELSE Res(NoErr, Conv(value.kind, i))

scanIntStore(i, value) ==
    LET k == value.kind
        overflow == Res(Err("value overflows", <<V("int64", i), TypeName(k)>>), value.val)
    IN CASE k \in {"int", "int8", "int16", "int32"} ->
              IF BigLess(MaxOf(k), i) \/ BigLess(i, MinOf(k)) THEN overflow
              ELSE Res(NoErr, Conv(k, i))
         [] k = "int64" -> Res(NoErr, Conv(k, i))
         [] k = "uint" ->
              IF BigLess(i, BigZero) \/ BigLess(MaxOf("uint"), Conv("uint64", i)) THEN overflow
              ELSE Res(NoErr, Conv(k, Conv("uint64", i)))
         [] k \in {"uint8", "uint16", "uint32"} ->
              IF BigLess(i, BigZero) \/ BigLess(MaxOf(k), i) THEN overflow
              ELSE Res(NoErr, Conv(k, Conv("uint64", i)))
         [] k = "uint64" ->
              IF BigLess(i, BigZero) THEN overflow
              ELSE Res(NoErr, Conv(k, Conv("uint64", i)))
         [] OTHER -> Res(Err("unsupported integer type", <<TypeName(k)>>), value.val)

scanInt(src, value) ==
    LET k == src.kind
    IN CASE k = "nilptr" -> Res(NoErr, value.val)
         [] k \in SignedKinds -> scanIntStore(Conv("int64", src.val), value)
         [] k \in UnsignedKinds ->
              LET u == Conv("uint64", src.val)
              IN IF BigLess(MaxOf("int64"), u)
                 THEN Res(Err("unsigned integer value overflows int64", <<src>>), value.val)
                 ELSE scanIntStore(Conv("int64", u), value)
         [] k \in FloatKinds -> scanIntStore(TruncFloat(src), value)
         [] k = "bool" -> scanIntStore(IF src.val THEN BigOne ELSE BigZero, value)
         [] k = "string" ->
              LET parsed == ParseInt(src.val, 64)
              IN IF parsed.err # "nil"
                 THEN Res(Err("failed to parse integer from string", <<src>>), value.val)
                 ELSE scanIntStore(parsed.val, value)
         [] k = "bytes" ->
              LET parsed == ParseInt(src.val, 64)
              IN IF parsed.err # "nil"
                 THEN Res(Err("failed to parse integer from bytes", <<src>>), value.val)
                 ELSE scanIntStore(parsed.val, value)
         [] k = "ints" -> Res(Err("cannot convert slice to integer", <<TypeName("int")>>), value.val)
         [] OTHER -> Res(Err("cannot convert to integer", <<TypeName(k)>>), value.val)

\* the second switch of scanFloat (every grid value is within float32 range)
scanFloatStore(f, value) ==
    IF value.kind \in FloatKinds THEN Res(NoErr, FloatConv(value.kind, f).val)
    ELSE Res(Err("unsupported float type", <<TypeName(value.kind)>>), value.val)

scanFloat(src, value) ==
    LET k == src.kind
    IN CASE k = "nilptr" -> Res(NoErr, value.val)
         [] k \in FloatKinds -> scanFloatStore(FloatConv("float64", src), value)
         [] k \in IntKinds -> scanFloatStore(V("float64", IntToFloat("float64", src.val)), value)
         [] k \in {"string", "bytes"} ->
              LET parsed == ParseFloat(src.val, "float64")
              IN IF parsed.err # "nil"
                 THEN Res(Err("failed to parse float", <<src>>), value.val)
                 ELSE scanFloatStore(V("float64", parsed.val), value)
         [] k = "ints" -> Res(Err("cannot convert slice to float", <<TypeName("int")>>), value.val)
         [] OTHER -> Res(Err("cannot convert to float", <<TypeName(k)>>), value.val)

scanBool(src, value) ==
    LET k == src.kind
    IN CASE k = "nilptr" -> Res(NoErr, value.val)
         [] k = "bool" -> Res(NoErr, src.val)
         [] k \in IntKinds -> Res(NoErr, src.val # BigZero)
         [] k \in FloatKinds -> Res(NoErr, Quarters(k, src.val) # 0)
         [] k \in {"string", "bytes"} ->
              LET parsed == ParseBool(src.val)
              IN IF parsed.err # "nil"
                 THEN Res(Err("failed to parse bool", <<src>>), value.val)
                 ELSE Res(NoErr, parsed.val)
         [] k = "ints" -> Res(Err("cannot convert slice to bool", <<TypeName("int")>>), value.val)
         [] OTHER -> Res(Err("cannot convert to bool", <<TypeName(k)>>), value.val)

scanTime(src, value) ==
    LET k == src.kind
    IN CASE k = "nilptr" -> Res(NoErr, value.val)
         [] k = "time" -> Res(NoErr, src.val)
         [] k \in {"string", "bytes"} ->
              LET parsed == TimeParse(src.val)
              IN IF parsed.err # "nil"
                 THEN Res(Err("failed to parse time", <<src>>), value.val)
                 ELSE Res(NoErr, parsed.val)
         [] OTHER -> Res(Err("cannot convert to time.Time", <<TypeName(k)>>), value.val)

\* the zero value of a kind
Zero(k) ==
    CASE k \in IntKinds -> BigZero
      [] k \in FloatKinds -> Zeros(BitSize(k) \div 8)
      [] k = "bool" -> FALSE
      [] k = "time" -> 0
      [] OTHER -> <<>>

\* the switch of Scan on the target's kind
ScanSwitch(src, value) ==
    CASE value.kind = "string" -> scanString(src, value)
      [] value.kind \in IntKinds -> scanInt(src, value)
      [] value.kind \in FloatKinds -> scanFloat(src, value)
      [] value.kind = "bool" -> scanBool(src, value)
      [] value.kind = "time" -> scanTime(src, value)
      [] OTHER -> Res(Err("unsupported target type", <<TypeName(value.kind)>>), value.val)

\* Scan with a nil source stored as the zero value
ScanNilZero(src, value) ==
    IF src.kind = "nil" THEN Res(NoErr, Zero(value.kind))
    ELSE IF src.kind = "nilptr" THEN Res(NoErr, value.val)
    ELSE ScanSwitch(src, value)

\* GenericScanner[T].Scan, T the kind of value
Scan(src, value) ==
    IF src.kind = "nil" THEN Res(NoErr, value.val)
    ELSE IF src.kind = "nilptr" THEN Res(NoErr, value.val)
    ELSE ScanSwitch(src, value)

(***************************************************************************)
(* The scanner written with type switches.  A call that aborts is the     *)
(* error "panic"; the target keeps its value.                              *)
(***************************************************************************)
scanStringTyped(src, value) ==
    IF src.kind \in {"bytes", "string"} THEN Res(NoErr, src.val)
    ELSE Res(Err("cannot convert to string", <<TypeName(src.kind)>>), value.val)

\* *ptr = int8(i) and the like: plain conversions of the int64
scanIntTyped(src, value) ==
    LET k == src.kind
        store(i) == IF value.kind \in IntKinds THEN Res(NoErr, Conv(value.kind, i))
                    ELSE Res(Err("unsupported integer type", <<TypeName(value.kind)>>), value.val)
    IN CASE k \in SignedKinds -> store(Conv("int64", src.val))
         [] k \in UnsignedKinds -> store(Conv("int64", Conv("uint64", src.val)))
         [] k \in FloatKinds -> store(TruncFloat(src))
         [] k \in {"bytes", "string"} ->
              IF ParseInt(src.val, 64).err # "nil"
              THEN Res(Err("failed to parse integer", <<src>>), value.val)
              ELSE store(ParseInt(src.val, 64).val)
         [] k = "bool" -> store(IF src.val THEN BigOne ELSE BigZero)
         [] OTHER -> Res(Err("cannot convert to integer", <<TypeName(k)>>), value.val)

\* rv.Int() on a reflect.Value of an unsigned kind panics
scanFloatTyped(src, value) ==
    LET k == src.kind
        store(f) == IF value.kind \in FloatKinds THEN Res(NoErr, FloatConv(value.kind, f).val)
                    ELSE Res(Err("unsupported float type", <<TypeName(value.kind)>>), value.val)
    IN CASE k \in FloatKinds -> store(FloatConv("float64", src))
         [] k \in SignedKinds -> store(V("float64", IntToFloat("float64", src.val)))
         [] k \in UnsignedKinds -> Res(Err("panic", <<TypeName(k)>>), value.val)
         [] k \in {"bytes", "string"} ->
              IF ParseFloat(src.val, "float64").err # "nil"
              THEN Res(Err("failed to parse float", <<src>>), value.val)
              ELSE store(V("float64", ParseFloat(src.val, "float64").val))
         [] OTHER -> Res(Err("cannot convert to float", <<TypeName(k)>>), value.val)

scanBoolTyped(src, value) ==
    LET k == src.kind
    IN CASE k = "bool" -> Res(NoErr, src.val)
         [] k \in SignedKinds -> Res(NoErr, src.val # BigZero)
         [] k \in UnsignedKinds -> Res(Err("panic", <<TypeName(k)>>), value.val)
         [] k \in FloatKinds -> Res(NoErr, Quarters(k, src.val) # 0)
         [] k \in {"bytes", "string"} ->
              IF ParseBool(src.val).err # "nil"
              THEN Res(Err("failed to parse bool", <<src>>), value.val)
              ELSE Res(NoErr, ParseBool(src.val).val)
         [] OTHER -> Res(Err("cannot convert to bool", <<TypeName(k)>>), value.val)

scanTimeTyped(src, value) ==
    LET k == src.kind
    IN CASE k = "time" -> Res(NoErr, src.val)
         [] k \in {"bytes", "string"} ->
              IF TimeParse(src.val).err # "nil"
              THEN Res(Err("failed to parse time", <<src>>), value.val)
              ELSE Res(NoErr, TimeParse(src.val).val)
         [] OTHER -> Res(Err("cannot convert to time.Time", <<TypeName(k)>>), value.val)

\* GenericScanner[T].Scan of the type-switch scanner
ScanTyped(src, value) ==
    IF src.kind = "nil" THEN Res(NoErr, value.val)
    ELSE CASE value.kind = "string" -> scanStringTyped(src, value)
           [] value.kind \in IntKinds -> scanIntTyped(src, value)
           [] value.kind \in FloatKinds -> scanFloatTyped(src, value)
           [] value.kind = "bool" -> scanBoolTyped(src, value)
           [] value.kind = "time" -> scanTimeTyped(src, value)
           [] OTHER -> Res(Err("unsupported target type", <<TypeName(value.kind)>>), value.val)

(***************************************************************************)
(* The Enum capability, as the generator emits it.  An enum type E is      *)
(* [R, format, members]: its raw kind, its SerdeFormat and its names map   *)
(* (instance -> name) as a sequence of [name, val].  An instance is its    *)
(* raw value V(R, val).                                                    *)
(***************************************************************************)
\* fmt's %v of a value
RECURSIVE SpaceSep(_)
SpaceSep(bs) == IF bs = <<>> THEN <<>>
                ELSE IF Len(bs) = 1 THEN FormatUint(SmallBig(bs[1]))
                ELSE FormatUint(SmallBig(bs[1])) \o <<32>> \o SpaceSep(Tail(bs))

Sprint(v) ==
    CASE v.kind \in SignedKinds -> FormatInt(v.val)
      [] v.kind \in UnsignedKinds -> FormatUint(v.val)
      [] v.kind \in FloatKinds -> FormatFloat(v.kind, v.val)
      [] v.kind = "bool" -> FormatBool(v.val)
      [] v.kind = "string" -> v.val
      [] v.kind = "bytes" -> <<91>> \o SpaceSep(v.val) \o <<93>>
      [] OTHER -> <<60, 110, 105, 108, 62>>

\* a names map whose every entry holds the first member
FindByNameFirst(E, name) ==
    [inst |-> V(E.R, IF \E i \in 1..Len(E.members) : E.members[i].name = name
                     THEN E.members[1].val ELSE Zero(E.R)),
     ok |-> \E i \in 1..Len(E.members) : E.members[i].name = name]

FindByName(E, name) ==
    IF \E i \in 1..Len(E.members) : E.members[i].name = name
    THEN LET i == CHOOSE j \in 1..Len(E.members) : E.members[j].name = name
         IN [inst |-> V(E.R, E.members[i].val), ok |-> TRUE]
    ELSE [inst |-> V(E.R, Zero(E.R)), ok |-> FALSE]

FindByValue(E, value) ==
    IF \E i \in 1..Len(E.members) : E.members[i].val = value
    THEN [inst |-> V(E.R, value), ok |-> TRUE]
    ELSE [inst |-> V(E.R, Zero(E.R)), ok |-> FALSE]

Name(E, e) ==
    IF \E i \in 1..Len(E.members) : E.members[i].val = e.val
    THEN E.members[CHOOSE i \in 1..Len(E.members) : E.members[i].val = e.val].name
    ELSE Lit.typeOpen \o Sprint(e) \o <<41>>

(***************************************************************************)
(* serde.go: the format codecs                                             *)
(***************************************************************************)
\* a decode entry point's results: (*E)(nil) or a pointer to an instance
NilPtr == [ok |-> FALSE, inst |-> NilValue]
PtrTo(e) == [ok |-> TRUE, inst |-> e]
Ret(p, e) == [ret |-> p, err |-> e]

\* the zero instance FromName and FromValue return handed on beside the error
foundBoth(r, src) ==
    IF r.ok THEN Ret(PtrTo(r.inst), NoErr)
    ELSE Ret(PtrTo(r.inst), Err("unknown constants", <<src>>))

\* if ok { return &r, nil }; return nil, fmt.Errorf("unknown constants %v", src)
found(r, src) ==
    IF r.ok THEN Ret(PtrTo(r.inst), NoErr)
    ELSE Ret(NilPtr, Err("unknown constants", <<src>>))

\* findNameOrValue trying the value of a string-backed enum when the name
\* is unknown
findNameOrValueFallback(E, value, isName, src) ==
    found(IF isName /\ (E.R # "string" \/ FindByName(E, value.val).ok)
          THEN FindByName(E, value.val) ELSE FindByValue(E, value.val), src)

findNameOrValue(E, value, isName, src) ==
    found(IF isName THEN FindByName(E, value.val) ELSE FindByValue(E, value.val), src)

\* the variable a decode entry point declares for the wire form: a string
\* under the name format, an R under the value format
WireVar(E) ==
    IF E.format = "FormatName" THEN V("string", <<>>) ELSE V(E.R, Zero(E.R))

\* the end of a decode entry point, r the outcome of reading the wire form
\* into WireVar: if err != nil { return nil, err }; return findNameOrValue(...)
lookupDecoded(E, r, src) ==
    IF r.err.type # "nil" THEN Ret(NilPtr, r.err)
    ELSE findNameOrValue(E, V(WireVar(E).kind, r.val), E.format = "FormatName", src)

\* MarshalText as a call of MarshalJSON: the name comes out quoted
MarshalTextQuoted(E, e, b) ==
    IF E.format = "FormatName" THEN [data |-> <<34>> \o Name(E, e) \o <<34>>, err |-> NoErr]
    ELSE LET r == anyToString(b) IN [data |-> r.str, err |-> r.err]

MarshalText(E, e, b) ==
    IF E.format = "FormatName" THEN [data |-> Name(E, e), err |-> NoErr]
    ELSE LET r == anyToString(b) IN [data |-> r.str, err |-> r.err]

\* UnmarshalText accepting a member's name whatever the format
UnmarshalTextEither(E, bs) ==
    IF E.format = "FormatName" \/ FindByName(E, bs).ok
    THEN findNameOrValue(E, V("string", bs), TRUE, V("string", bs))
    ELSE lookupDecoded(E, parseStringValue(bs, WireVar(E)), V("string", bs))

UnmarshalText(E, bs) ==
    IF E.format = "FormatName"
    THEN findNameOrValue(E, V("string", bs), TRUE, V("string", bs))
    ELSE lookupDecoded(E, parseStringValue(bs, WireVar(E)), V("string", bs))

MarshalBinary(E, e, b) ==
    IF E.format = "FormatName" THEN [data |-> Name(E, e), err |-> NoErr]
    ELSE anyToBinary(b)

UnmarshalBinary(E, bs) ==
    IF E.format = "FormatName"
    THEN findNameOrValue(E, V("string", bs), TRUE, V("string", bs))
    ELSE lookupDecoded(E, parseBinaryValue(bs, WireVar(E)), V("string", bs))

\* SQLScan refusing a nil source at the scan
SQLScanNilRefused(E, src) ==
    IF src.kind = "nil"
    THEN Ret(NilPtr, Err("cannot convert", <<TypeName("nil"), TypeName(WireVar(E).kind)>>))
    ELSE lookupDecoded(E, Scan(src, WireVar(E)), src)

SQLScan(E, src) == lookupDecoded(E, Scan(src, WireVar(E)), src)

(***************************************************************************)
(* encoding/json, as far as UnmarshalJSON and MarshalJSON use it: a string *)
(* literal without escapes, the literals null, true and false, and plain   *)
(* number literals                                                         *)
(***************************************************************************)
RECURSIVE TrimSpace(_)
TrimSpace(s) ==
    IF s # <<>> /\ s[1] = 32 THEN TrimSpace(Tail(s))
    ELSE IF s # <<>> /\ s[Len(s)] = 32 THEN TrimSpace(SubSeq(s, 1, Len(s) - 1))
    ELSE s

\* -?(0|[1-9][0-9]*)
IsJSONInt(s) ==
    LET d == IF s # <<>> /\ s[1] = 45 THEN Tail(s) ELSE s
    IN /\ d # <<>>
       /\ \A i \in 1..Len(d) : IsDigit(d[i])
       /\ (Len(d) > 1 => d[1] # 48)

\* -?(0|[1-9][0-9]*)(\.[0-9]+)?
IsJSONNumber(s) ==
    LET dot == DotAt(s)
    IN IF dot = 0 THEN IsJSONInt(s)
       ELSE /\ IsJSONInt(SubSeq(s, 1, dot - 1))
            /\ dot < Len(s)
            /\ \A i \in (dot + 1)..Len(s) : IsDigit(s[i])

IsJSONString(s) ==
    /\ Len(s) >= 2
    /\ s[1] = 34 /\ s[Len(s)] = 34
    /\ \A i \in 2..(Len(s) - 1) : s[i] \notin {34, 92} /\ s[i] >= 32

\* json.Unmarshal(bs, &value)
jsonUnmarshal(bs, value) ==
    LET k == value.kind
        t == TrimSpace(bs)
        bad == Res(Err("json: cannot unmarshal", <<V("string", bs), TypeName(k)>>), value.val)
    IN IF t = S_null THEN Res(NoErr, value.val)
       ELSE CASE k = "string" ->
                   IF IsJSONString(t) THEN Res(NoErr, SubSeq(t, 2, Len(t) - 1)) ELSE bad
              [] k \in SignedKinds ->
                   IF IsJSONInt(t) /\ ParseInt(t, BitSize(k)).err = "nil"
                   THEN Res(NoErr, ParseInt(t, BitSize(k)).val) ELSE bad
              [] k \in UnsignedKinds ->
                   IF IsJSONInt(t) /\ ParseUint(t, BitSize(k)).err = "nil"
                   THEN Res(NoErr, ParseUint(t, BitSize(k)).val) ELSE bad
              [] k \in FloatKinds ->
                   IF IsJSONNumber(t) /\ ParseFloat(t, k).err = "nil"
                   THEN Res(NoErr, ParseFloat(t, k).val) ELSE bad
              [] k = "bool" ->
                   IF t = S_true THEN Res(NoErr, TRUE)
                   ELSE IF t = S_false THEN Res(NoErr, FALSE) ELSE bad
              [] OTHER -> bad

MarshalJSON(E, e, b) ==
    IF E.format = "FormatName" THEN [data |-> <<34>> \o Name(E, e) \o <<34>>, err |-> NoErr]
    ELSE LET r == anyToString(b) IN [data |-> r.str, err |-> r.err]

UnmarshalJSON(E, bs) == lookupDecoded(E, jsonUnmarshal(bs, WireVar(E)), V("string", bs))

(***************************************************************************)
(* The structured-node codec.  A node is the value it holds; Decode is the *)
(* repository's MockYAMLNode.                                              *)
(***************************************************************************)
toInt64(value) ==
    IF value.kind \in IntKinds THEN [v |-> Conv("int64", value.val), ok |-> TRUE]
    ELSE [v |-> BigZero, ok |-> FALSE]

toFloat64(value) ==
    IF value.kind \in FloatKinds THEN [v |-> FloatConv("float64", value), ok |-> TRUE]
    ELSE [v |-> V("float64", Zero("float64")), ok |-> FALSE]

\* node.Decode(&value): the test node, and a YAMLNode whose Decode fails
\* whatever the target (kind "badnode")
Decode(node, value) ==
    LET k == value.kind
        bad == Res(Err("cannot convert", <<TypeName(node.kind), TypeName(k)>>), value.val)
    IN CASE node.kind = "badnode" -> Res(Err("yaml: cannot decode", <<TypeName(k)>>), value.val)
         [] k = "any" -> Res(NoErr, node)
         [] k = "string" ->
              IF node.kind = "string" THEN Res(NoErr, node.val) ELSE Res(NoErr, Sprint(node))
         [] k = "int" ->
              IF node.kind \in {"int", "int64"} THEN Res(NoErr, Conv("int", node.val)) ELSE bad
         [] k = "int32" ->
              IF node.kind \in {"int32", "int"} THEN Res(NoErr, Conv("int32", node.val)) ELSE bad
         [] k = "float32" ->
              IF node.kind \in FloatKinds THEN Res(NoErr, FloatConv("float32", node).val) ELSE bad
         [] k = "bool" ->
              IF node.kind = "bool" THEN Res(NoErr, node.val) ELSE bad
         [] OTHER -> Res(Err("unsupported decode type", <<TypeName(k)>>), value.val)

convertToTargetType(value, target) ==
    LET k == target.kind
        i == toInt64(value)
        f == toFloat64(value)
        bad == Res(Err("cannot convert", <<TypeName(value.kind), TypeName(k)>>), target.val)
    IN CASE k = "string" ->
              IF value.kind = "string" THEN Res(NoErr, value.val)
              ELSE LET r == anyToString(value)
                   IN IF r.err.type # "nil" THEN Res(r.err, target.val) ELSE Res(NoErr, r.str)
         [] k \in SignedKinds -> IF i.ok THEN Res(NoErr, Conv(k, i.v)) ELSE bad
         [] k \in {"uint", "uint64"} ->
              IF i.ok /\ ~BigLess(i.v, BigZero) THEN Res(NoErr, Conv(k, i.v)) ELSE bad
         [] k \in {"uint8", "uint16", "uint32"} ->
              IF i.ok /\ ~BigLess(i.v, BigZero) /\ BigLeq(i.v, MaxOf(k))
              THEN Res(NoErr, Conv(k, i.v)) ELSE bad
         [] k \in FloatKinds -> IF f.ok THEN Res(NoErr, FloatConv(k, f.v).val) ELSE bad
         [] k = "bool" -> IF value.kind = "bool" THEN Res(NoErr, value.val) ELSE bad
         [] k = "bytes" -> IF value.kind \in {"string", "bytes"} THEN Res(NoErr, value.val) ELSE bad
         [] OTHER -> bad

\* SQLValue(e): the driver.Value and the error
SQLValue(E, e) ==
    IF E.format = "FormatName" THEN [val |-> V("string", Name(E, e)), err |-> NoErr]
    ELSE IF toInt64(e).ok THEN [val |-> V("int64", toInt64(e).v), err |-> NoErr]
    ELSE IF toFloat64(e).ok THEN [val |-> toFloat64(e).v, err |-> NoErr]
    ELSE IF e.kind \in {"bytes", "bool", "string"} THEN [val |-> e, err |-> NoErr]
    ELSE [val |-> V("string", jsonMarshal(e).str), err |-> jsonMarshal(e).err]

\* the name branch, r the outcome of node.Decode(&name)
UnmarshalYAMLName(E, r) ==
    IF r.err.type # "nil"
    THEN Ret(NilPtr, Err("failed to decode YAML node as string", r.err.args))
    ELSE findNameOrValue(E, V("string", r.val), TRUE, V("string", r.val))

\* the fallback of the value branch going on to the lookup whatever the
\* outcome of convertToTargetType
UnmarshalYAMLConvertedAnyway(E, c) ==
    findNameOrValue(E, V(E.R, c.val), FALSE, V(E.R, c.val))

\* the fallback of the value branch, c the outcome of convertToTargetType
UnmarshalYAMLConverted(E, c) ==
    IF c.err.type # "nil"
    THEN Ret(NilPtr, Err("failed to convert YAML value to target type", c.err.args))
    ELSE findNameOrValue(E, V(E.R, c.val), FALSE, V(E.R, c.val))

\* the value branch, r the outcome of node.Decode(&rawValue)
UnmarshalYAMLValue(E, node, r) ==
    IF r.err.type = "nil"
    THEN findNameOrValue(E, V(E.R, r.val), FALSE, V(E.R, r.val))
    ELSE IF Decode(node, V("any", <<>>)).err.type # "nil"
    THEN Ret(NilPtr, Err("failed to decode YAML node", r.err.args))
    ELSE UnmarshalYAMLConverted(E, convertToTargetType(Decode(node, V("any", <<>>)).val, WireVar(E)))

UnmarshalYAML(E, node) ==
    IF E.format = "FormatName"
    THEN UnmarshalYAMLName(E, Decode(node, WireVar(E)))
    ELSE UnmarshalYAMLValue(E, node, Decode(node, WireVar(E)))

(***************************************************************************)
(* Storage of byte slices.  heap[id] is the backing array of buffer id.    *)
(* Each operator returns the heap after the call and the buffer that holds *)
(* the result, given the buffer `in` the caller passed.                    *)
(***************************************************************************)
\* anyToBinary, case []byte, returning v itself
anyToBinaryBufAlias(h, in) == [heap |-> h, buf |-> in]

\* anyToBinary, case []byte: result := make([]byte, len(v)); copy(result, v)
anyToBinaryBuf(h, in) == [heap |-> Append(h, h[in]), buf |-> Len(h) + 1]

\* parseBinaryValue, case *[]byte: *v = make([]byte, len(data)); copy(*v, data)
parseBinaryValueBuf(h, in) == [heap |-> Append(h, h[in]), buf |-> Len(h) + 1]

(***************************************************************************)
(* Inputs                                                                  *)
(***************************************************************************)
\* bounds of the model
MaxStrLen == 2
MaxDataLen == 9
MaxWrites == 2
MaxCallers == 2

\* '0', '1', '-', 'a'
TextAlphabet == {48, 49, 45, 97}

SeqsUpTo(A, n) == UNION {[1..m -> A] : m \in 0..n}

Texts ==
    SeqsUpTo(TextAlphabet, MaxStrLen) \cup
    {S_true, S_false, Lit.upTRUE, Lit.upFALSE, Lit.capTrue, Lit.capFalse, Lit.t, Lit.capT, Lit.f, Lit.capF, S_null,
     Lit.Pending, Lit.Active, Lit.Done, Lit.Nope, Lit.test, Lit.n99, Lit.n300, Lit.n1000, Lit.n256, Lit.n255,
     Lit.m128, Lit.m129, Lit.n127, Lit.n128, Lit.p5, Lit.n007, Lit.n12p5, Lit.sp1, Lit.notnum,
     Lit.maxi64, Lit.mini64, Lit.two63, Lit.maxu64, Lit.two64, Lit.qActive, Lit.qNope, Lit.time}

\* 0x12 0x34 0x56 ... of length n, all-ones of length n, and the most
\* negative pattern of length n
DataPattern(n) == [i \in 1..n |-> (18 + 34 * (i - 1)) % 256]
Datas ==
    UNION {{DataPattern(n), [i \in 1..n |-> 255], [i \in 1..n |-> IF i = 1 THEN 128 ELSE 0]}
           : n \in 0..MaxDataLen}
    \cup {Lit.Active, Lit.Nope, <<0>>, <<1>>, <<2>>, <<99>>, <<0, 0, 0, 0, 0, 0, 0, 1>>,
          <<0, 0, 0, 0, 0, 0, 0, 99>>}

IntSamples ==
    {SmallBig(n) : n \in {-129, -1, 0, 1, 2, 42, 99, 256, 300, 4660, 70000}}
    \cup {MinOf(k) : k \in SignedKinds} \cup {MaxOf(k) : k \in IntKinds}
    \cup {Big(FALSE, Pow2Mag(n)) : n \in {7, 15, 31, 63}}

FloatSamples == {0, 1, 4, 50, -50, -6, 1202}

TextSamples ==
    {<<>>, S_1, S_0, Lit.Active, Lit.Nope, Lit.n99, Lit.test, S_true, Lit.n12p5, Lit.notnum, Lit.m129,
     Lit.two63, Lit.time}

Values(k) ==
    CASE k \in IntKinds -> {V(k, x) : x \in {y \in IntSamples : InRange(k, y)}}
      [] k \in FloatKinds -> {V(k, FloatBits(k, q)) : q \in FloatSamples}
      [] k = "bool" -> {V(k, TRUE), V(k, FALSE)}
      [] k \in {"string", "bytes"} -> {V(k, t) : t \in TextSamples}
      [] k = "time" -> {V(k, 0), V(k, 1)}
      [] OTHER -> {V(k, <<>>)}

PrimitiveKinds == IntKinds \cup FloatKinds \cup {"bool", "string", "bytes"}
AllValues == UNION {Values(k) : k \in PrimitiveKinds}

\* everything a caller may hand to Scan
Sources == AllValues \cup Values("time")
           \cup {NilValue, V("nilptr", <<>>), V("ints", <<>>), V("struct", <<>>)}

\* the variables a caller may pass a pointer to: a kind and the value held
TargetKinds == PrimitiveKinds \cup {"time", "struct"}
PriorValues(k) ==
    CASE k \in IntKinds -> {V(k, BigZero), V(k, SmallBig(7))}
      [] k \in FloatKinds -> {V(k, Zero(k)), V(k, FloatBits(k, 6))}
      [] k = "bool" -> {V(k, FALSE), V(k, TRUE)}
      [] k \in {"string", "bytes"} -> {V(k, <<>>), V(k, Lit.test)}
      [] k = "time" -> {V(k, 0), V(k, 1)}
      [] OTHER -> {V(k, <<>>)}
Targets == UNION {PriorValues(k) : k \in TargetKinds}

\* the enum types under test: Pending = 0, Active = 1, Done = 2
StatusMembers ==
    << [name |-> Lit.Pending, val |-> BigZero],
       [name |-> Lit.Active, val |-> BigOne],
       [name |-> Lit.Done, val |-> SmallBig(2)] >>
EnumTypes ==
    {[R |-> r, format |-> f, members |-> StatusMembers] :
        r \in {"int", "int8"}, f \in {"FormatName", "FormatValue"}}

\* a string-backed enum: Pending = "", Active = "a", Done = "Pending"
StringEnum ==
    [R |-> "string", format |-> "FormatName",
     members |-> << [name |-> Lit.Pending, val |-> <<>>],
                    [name |-> Lit.Active, val |-> <<97>>],
                    [name |-> Lit.Done, val |-> Lit.Pending] >>]

\* the names map of the enum type of each raw kind: 0, 1, 2 for int and
\* int8; the least value, 1 and the greatest for the other signed kinds;
\* 0, 1 and the greatest for the unsigned kinds; 0, 1.5 and -12.5 for the
\* float kinds; false and true for bool
KindMembers(R) ==
    CASE R \in {"int", "int8"} -> StatusMembers
      [] R \in SignedKinds ->
           << [name |-> Lit.Pending, val |-> MinOf(R)],
              [name |-> Lit.Active, val |-> BigOne],
              [name |-> Lit.Done, val |-> MaxOf(R)] >>
      [] R \in UnsignedKinds ->
           << [name |-> Lit.Pending, val |-> BigZero],
              [name |-> Lit.Active, val |-> BigOne],
              [name |-> Lit.Done, val |-> MaxOf(R)] >>
      [] R \in FloatKinds ->
           << [name |-> Lit.Pending, val |-> FloatBits(R, 0)],
              [name |-> Lit.Active, val |-> FloatBits(R, 6)],
              [name |-> Lit.Done, val |-> FloatBits(R, -50)] >>
      [] R = "bool" ->
           << [name |-> Lit.Pending, val |-> FALSE],
              [name |-> Lit.Active, val |-> TRUE] >>
      [] OTHER -> StringEnum.members

\* the instances a caller may hold: the members and one that is none
Instances(E) ==
    {V(E.R, E.members[i].val) : i \in 1..Len(E.members)}
    \cup (CASE E.R \in IntKinds -> {V(E.R, SmallBig(5))}
            [] E.R \in FloatKinds -> {V(E.R, FloatBits(E.R, 4))}
            [] E.R = "string" -> {V(E.R, Lit.Nope)}
            [] OTHER -> {})

DefaultEnum == [R |-> "int", format |-> "FormatName", members |-> StatusMembers]
DefaultTarget == V("int", BigZero)

\* a run exercises either the primitive codec on one variable or the format
\* codecs of one enum type
Scenarios == {[enum |-> DefaultEnum, target |-> t] : t \in Targets}
             \cup {[enum |-> E, target |-> DefaultTarget] : E \in EnumTypes}

(***************************************************************************)
(* The state machine: a caller that makes one call after another.          *)
(*   pc      "idle" before a call, "called" after it                       *)
(*   enum    the enum type whose codecs are called                         *)
(*   target  the variable decode calls write through                       *)
(*   old     target as it was when the last call started                   *)
(*   call    the last call: its name and its argument                      *)
(*   err     the error the last call returned                              *)
(*   out     the value the last call returned (encoders), or nil           *)
(*   ret     the instance pointer the last call returned (decoders)        *)
(*   chain   the value whose encoding the last call decoded, or nil        *)
(*   heap    backing arrays of the byte slices in play                     *)
(*   inBuf   the buffer of the caller's slice argument (0: none)           *)
(*   outBuf  the buffer of the slice the call produced (0: none)           *)
(*   wrote   the buffer the last step wrote to (0: none)                   *)
(*   nwrites writes made since the call returned                           *)
(*   procs   concurrent callers: where each is in its call, the call and   *)
(*           what it returned                                              *)
(*   locals  the variable each concurrent call declares for the wire form  *)
(***************************************************************************)
VARIABLES pc, enum, target, old, call, err, out, ret, chain,
          heap, inBuf, outBuf, wrote, nwrites, procs, locals

vars == <<pc, enum, target, old, call, err, out, ret, chain,
          heap, inBuf, outBuf, wrote, nwrites, procs, locals>>

NoCall == [op |-> "none", arg |-> NilValue]

Init ==
    /\ pc = "idle"
    /\ \/ \E sc \in Scenarios : enum = sc.enum /\ target = sc.target
       \/ \E R \in PrimitiveKinds \ {"bytes", "int", "int8"}, f \in {"FormatName", "FormatValue"} :
             /\ enum = [R |-> R, format |-> f, members |-> KindMembers(R)]
             /\ target = DefaultTarget
    /\ old = target
    /\ call = NoCall
    /\ err = NoErr
    /\ out = NilValue
    /\ ret = NilPtr
    /\ chain = NilValue
    /\ heap = <<>>
    /\ inBuf = 0 /\ outBuf = 0 /\ wrote = 0 /\ nwrites = 0
    /\ procs = [p \in 1..MaxCallers |-> [pc |-> "idle", op |-> "none", arg |-> NilValue, res |-> NilValue]]
    /\ locals = [p \in 1..MaxCallers |-> NilValue]

\* the caller moves on to the next call, with a fresh variable
NewCall ==
    /\ pc = "called"
    /\ pc' = "idle"
    /\ \/ \E sc \in Scenarios : enum' = sc.enum /\ target' = sc.target
       \/ \E R \in PrimitiveKinds \ {"bytes", "int", "int8"}, f \in {"FormatName", "FormatValue"} :
             /\ enum' = [R |-> R, format |-> f, members |-> KindMembers(R)]
             /\ target' = DefaultTarget
    /\ old' = target'
    /\ call' = NoCall
    /\ err' = NoErr
    /\ out' = NilValue
    /\ ret' = NilPtr
    /\ chain' = NilValue
    /\ heap' = <<>>
    /\ inBuf' = 0 /\ outBuf' = 0 /\ wrote' = 0 /\ nwrites' = 0
    /\ UNCHANGED <<procs, locals>>

\* what every call leaves behind
Returned(op, arg, tgt, e, o, r, ch) ==
    /\ pc' = "called"
    /\ call' = [op |-> op, arg |-> arg]
    /\ old' = tgt
    /\ err' = e
    /\ out' = o
    /\ ret' = r
    /\ chain' = ch
    /\ wrote' = 0 /\ nwrites' = 0
    /\ UNCHANGED <<enum, procs, locals>>

NoBuffers == heap' = <<>> /\ inBuf' = 0 /\ outBuf' = 0

Primitive == pc = "idle" /\ enum.R = DefaultEnum.R /\ enum = DefaultEnum
Encoding == Primitive /\ target = DefaultTarget
Enumerated == pc = "idle" /\ target = DefaultTarget

CallAnyToString ==
    /\ Encoding
    /\ \E v \in AllValues \cup {NilValue} :
          \E r \in {anyToString(v)} :
             /\ Returned("anyToString", v, target, r.err, V("string", r.str), NilPtr, NilValue)
             /\ UNCHANGED target
             /\ NoBuffers

CallAnyToBinary ==
    /\ Encoding
    /\ \E v \in AllValues \cup {NilValue} :
          \E r \in {anyToBinary(v)} :
             /\ Returned("anyToBinary", v, target, r.err, V("bytes", r.data), NilPtr, NilValue)
             /\ UNCHANGED target
             /\ IF v.kind = "bytes"
                THEN LET b == anyToBinaryBuf(<<v.val>>, 1)
                     IN heap' = b.heap /\ inBuf' = 1 /\ outBuf' = b.buf
                ELSE NoBuffers

\* float texts are confined to the grid the model gives a meaning to
TextModelled(str, k) == k \in FloatKinds => ParseFloat(str, k).err # "offgrid"

CallParseStringValue ==
    /\ Primitive
    /\ \E str \in Texts :
          /\ TextModelled(str, target.kind)
          /\ \E r \in {parseStringValue(str, target)} :
                /\ Returned("parseStringValue", V("string", str), target, r.err, NilValue,
                            NilPtr, NilValue)
                /\ target' = V(target.kind, r.val)
                /\ NoBuffers

\* var result K; parseStringValue(anyToString(v), &result)
CallParseStringValueBack ==
    /\ pc = "called" /\ call.op = "anyToString" /\ err.type = "nil"
    /\ call.arg.kind \in PrimitiveKinds
    /\ \E fresh \in {V(call.arg.kind, Zero(call.arg.kind))} :
       \E r \in {parseStringValue(out.val, fresh)} :
          /\ Returned("parseStringValue", out, fresh, r.err, NilValue, NilPtr, call.arg)
          /\ target' = V(fresh.kind, r.val)
          /\ NoBuffers

CallParseBinaryValue ==
    /\ Primitive
    /\ \E data \in Datas :
          \E r \in {parseBinaryValue(data, target)} :
             /\ Returned("parseBinaryValue", V("bytes", data), target, r.err, NilValue,
                         NilPtr, NilValue)
             /\ target' = V(target.kind, r.val)
             /\ IF target.kind = "bytes" /\ r.err.type = "nil"
                THEN LET b == parseBinaryValueBuf(<<data>>, 1)
                     IN heap' = b.heap /\ inBuf' = 1 /\ outBuf' = b.buf
                ELSE NoBuffers

\* var result K; parseBinaryValue(anyToBinary(v), &result)
CallParseBinaryValueBack ==
    /\ pc = "called" /\ call.op = "anyToBinary" /\ err.type = "nil" /\ nwrites = 0
    /\ call.arg.kind \in PrimitiveKinds
    /\ \E fresh \in {V(call.arg.kind, Zero(call.arg.kind))} :
       \E r \in {parseBinaryValue(out.val, fresh)} :
          /\ Returned("parseBinaryValue", out, fresh, r.err, NilValue, NilPtr, call.arg)
          /\ target' = V(fresh.kind, r.val)
          /\ IF fresh.kind = "bytes" /\ r.err.type = "nil"
             THEN LET b == parseBinaryValueBuf(<<out.val>>, 1)
                  IN heap' = b.heap /\ inBuf' = 1 /\ outBuf' = b.buf
             ELSE NoBuffers

\* the caller, or whoever holds the result, stores a byte into its slice
WriteByte ==
    /\ pc = "called" /\ inBuf # 0 /\ outBuf # 0
    /\ nwrites < MaxWrites
    /\ \E id \in {inBuf, outBuf} : \E i \in 1..Len(heap[id]) :
          /\ heap' = [heap EXCEPT ![id][i] = 88]
          /\ wrote' = id
    /\ nwrites' = nwrites + 1
    /\ UNCHANGED <<pc, enum, target, old, call, err, out, ret, chain, inBuf, outBuf, procs, locals>>

\* integer-to-float sources are confined to the grid as well
ScanModelled(src, k) ==
    /\ (k \in FloatKinds /\ src.kind \in IntKinds) => IntOnGrid(src.val)
    /\ (k \in FloatKinds /\ src.kind \in {"string", "bytes"}) => TextModelled(src.val, "float64")

CallScan ==
    /\ Primitive
    /\ \E src \in Sources :
          /\ ScanModelled(src, target.kind)
          /\ \E r \in {Scan(src, target)} :
                /\ Returned("Scan", src, target, r.err, NilValue, NilPtr, NilValue)
                /\ target' = V(target.kind, r.val)
                /\ NoBuffers

\* Scan of the type-switch scanner
CallScanTyped ==
    /\ Primitive
    /\ \E src \in Sources :
          /\ ScanModelled(src, target.kind)
          /\ \E r \in {ScanTyped(src, target)} :
                /\ Returned("ScanTyped", src, target, r.err, NilValue, NilPtr, NilValue)
                /\ target' = V(target.kind, r.val)
                /\ NoBuffers

CallMarshalText ==
    /\ Enumerated
    /\ \E e \in Instances(enum) :
          \E r \in {MarshalText(enum, e, e)} :
             /\ Returned("MarshalText", e, target, r.err, V("bytes", r.data), NilPtr, NilValue)
             /\ UNCHANGED target
             /\ NoBuffers

CallMarshalBinary ==
    /\ Enumerated
    /\ \E e \in Instances(enum) :
          \E r \in {MarshalBinary(enum, e, e)} :
             /\ Returned("MarshalBinary", e, target, r.err, V("bytes", r.data), NilPtr, NilValue)
             /\ UNCHANGED target
             /\ NoBuffers

CallMarshalJSON ==
    /\ Enumerated
    /\ \E e \in Instances(enum) :
          \E r \in {MarshalJSON(enum, e, e)} :
             /\ Returned("MarshalJSON", e, target, r.err, V("bytes", r.data), NilPtr, NilValue)
             /\ UNCHANGED target
             /\ NoBuffers

\* findNameOrValue(e, value, isName, src), value a string when isName and an
\* R otherwise
CallFindNameOrValue ==
    /\ Enumerated
    /\ \E isName \in BOOLEAN, src \in {NilValue, V("bytes", Lit.Nope)} :
       \E value \in IF isName \/ enum.R = "string"
                     THEN {V("string", t) : t \in {Lit.Pending, Lit.Active, Lit.Done, Lit.Nope,
                                                    <<>>, <<97>>, S_1}}
                     ELSE Instances(enum) :
       \E r \in {findNameOrValue(enum, value, isName, src)} :
          /\ Returned("findNameOrValue",
                      V("args", [value |-> value, isName |-> isName, src |-> src]),
                      target, r.err, NilValue, r.ret, NilValue)
          /\ UNCHANGED target
          /\ NoBuffers

CallUnmarshalText ==
    /\ Enumerated
    /\ \E bs \in Texts :
          /\ enum.format = "FormatValue" => TextModelled(bs, enum.R)
          /\ \E r \in {UnmarshalText(enum, bs)} :
             /\ Returned("UnmarshalText", V("bytes", bs), target, r.err, NilValue, r.ret, NilValue)
             /\ UNCHANGED target
             /\ NoBuffers

CallUnmarshalJSON ==
    /\ Enumerated
    /\ \E bs \in Texts :
          /\ enum.format = "FormatValue" => TextModelled(TrimSpace(bs), enum.R)
          /\ \E r \in {UnmarshalJSON(enum, bs)} :
             /\ Returned("UnmarshalJSON", V("bytes", bs), target, r.err, NilValue, r.ret, NilValue)
             /\ UNCHANGED target
             /\ NoBuffers

CallUnmarshalBinary ==
    /\ Enumerated
    /\ \E bs \in Datas :
          \E r \in {UnmarshalBinary(enum, bs)} :
             /\ Returned("UnmarshalBinary", V("bytes", bs), target, r.err, NilValue, r.ret, NilValue)
             /\ UNCHANGED target
             /\ NoBuffers

\* var target K; convertToTargetType(value, &target), K a primitive kind
CallConvertToTargetType ==
    /\ Primitive /\ target.kind \in PrimitiveKinds
    /\ \E value \in AllValues \cup {NilValue} :
          \E r \in {convertToTargetType(value, target)} :
             /\ Returned("convertToTargetType", value, target, r.err, NilValue, NilPtr, NilValue)
             /\ target' = V(target.kind, r.val)
             /\ NoBuffers

CallSQLValue ==
    /\ Enumerated
    /\ \E e \in Instances(enum) :
          \E r \in {SQLValue(enum, e)} :
             /\ Returned("SQLValue", e, target, r.err, r.val, NilPtr, NilValue)
             /\ UNCHANGED target
             /\ NoBuffers

CallUnmarshalYAML ==
    /\ Enumerated
    /\ \E node \in AllValues \cup {NilValue, V("badnode", <<>>)} :
          \E r \in {UnmarshalYAML(enum, node)} :
             /\ Returned("UnmarshalYAML", node, target, r.err, NilValue, r.ret, NilValue)
             /\ UNCHANGED target
             /\ NoBuffers

CallSQLScan ==
    /\ Enumerated
    /\ \E src \in Sources :
          /\ ScanModelled(src, WireVar(enum).kind)
          /\ \E r \in {SQLScan(enum, src)} :
             /\ Returned("SQLScan", src, target, r.err, NilValue, r.ret, NilValue)
             /\ UNCHANGED target
             /\ NoBuffers

\* UnmarshalText(e, bs), bs what MarshalText(e, e.Val()) returned
CallUnmarshalTextBack ==
    /\ pc = "called" /\ call.op = "MarshalText" /\ err.type = "nil"
    /\ \E r \in {UnmarshalText(enum, out.val)} :
          /\ Returned("UnmarshalText", out, target, r.err, NilValue, r.ret, call.arg)
          /\ UNCHANGED target
          /\ NoBuffers

\* UnmarshalBinary(e, bs), bs what MarshalBinary(e, e.Val()) returned
CallUnmarshalBinaryBack ==
    /\ pc = "called" /\ call.op = "MarshalBinary" /\ err.type = "nil"
    /\ \E r \in {UnmarshalBinary(enum, out.val)} :
          /\ Returned("UnmarshalBinary", out, target, r.err, NilValue, r.ret, call.arg)
          /\ UNCHANGED target
          /\ NoBuffers

\* UnmarshalJSON(e, bs), bs what MarshalJSON(e, e.Val()) returned
CallUnmarshalJSONBack ==
    /\ pc = "called" /\ call.op = "MarshalJSON" /\ err.type = "nil"
    /\ \E r \in {UnmarshalJSON(enum, out.val)} :
          /\ Returned("UnmarshalJSON", out, target, r.err, NilValue, r.ret, call.arg)
          /\ UNCHANGED target
          /\ NoBuffers

\* SQLScan(e, src), src what SQLValue(e) returned
CallSQLScanBack ==
    /\ pc = "called" /\ call.op = "SQLValue" /\ err.type = "nil"
    /\ \E r \in {SQLScan(enum, out)} :
          /\ Returned("SQLScan", out, target, r.err, NilValue, r.ret, call.arg)
          /\ UNCHANGED target
          /\ NoBuffers

Next ==
    \/ NewCall
    \/ CallAnyToString
    \/ CallAnyToBinary
    \/ CallParseStringValue
    \/ CallParseStringValueBack
    \/ CallParseBinaryValue
    \/ CallParseBinaryValueBack
    \/ WriteByte
    \/ CallScan
    \/ CallScanTyped
    \/ CallMarshalText
    \/ CallMarshalBinary
    \/ CallMarshalJSON
    \/ CallFindNameOrValue
    \/ CallUnmarshalText
    \/ CallUnmarshalJSON
    \/ CallUnmarshalBinary
    \/ CallConvertToTargetType
    \/ CallSQLValue
    \/ CallUnmarshalYAML
    \/ CallSQLScan
    \/ CallUnmarshalTextBack
    \/ CallUnmarshalBinaryBack
    \/ CallUnmarshalJSONBack
    \/ CallSQLScanBack

Spec == Init /\ [][Next]_vars

(***************************************************************************)
(* Concurrent callers of the codecs of one enum type.  SQLScan declares a  *)
(* variable for the wire form, has a scanner it allocates for that         *)
(* variable fill it, and looks the variable up in the names map of the     *)
(* type; MarshalText reads the names map once.  Callers interleave between *)
(* these steps.                                                            *)
(***************************************************************************)
\* one variable for every caller, whoever calls
SlotShared(p) == 1

\* var name string, var value R: a variable of the call's own frame
Slot(p) == p

\* caller p moves on
Step(p, st, loc) ==
    /\ procs' = [procs EXCEPT ![p] = st]
    /\ locals' = loc
    /\ UNCHANGED <<pc, enum, target, old, call, err, out, ret, chain,
                   heap, inBuf, outBuf, wrote, nwrites>>

\* SQLScan(e, src): var name string (var value R)
BeginSQLScan(p) ==
    /\ Enumerated /\ procs[p].pc = "idle"
    /\ \E src \in {NilValue, V("string", Lit.Active), V("string", S_1), V("int64", BigOne),
                    V("bool", TRUE)} :
          /\ ScanModelled(src, WireVar(enum).kind)
          /\ Step(p, [pc |-> "scan", op |-> "SQLScan", arg |-> src, res |-> NilValue],
                  [locals EXCEPT ![Slot(p)] = WireVar(enum)])

\* err := NewScanner[string](&name).Scan(src)
ScanStep(p) ==
    /\ procs[p].pc = "scan"
    /\ \E r \in {Scan(procs[p].arg, locals[Slot(p)])} :
          Step(p, [procs[p] EXCEPT !.pc = "lookup", !.res = r.err],
               [locals EXCEPT ![Slot(p)] = V(locals[Slot(p)].kind, r.val)])

\* if err != nil { return nil, err }; return findNameOrValue(e, name, true, src)
LookupStep(p) ==
    /\ procs[p].pc = "lookup"
    /\ Step(p, [procs[p] EXCEPT !.pc = "done",
                                !.res = lookupDecoded(enum, Res(procs[p].res, locals[Slot(p)].val),
                                                      procs[p].arg)],
            locals)

\* MarshalText(e, e.Val())
EncodeStep(p) ==
    /\ Enumerated /\ procs[p].pc = "idle"
    /\ \E e \in Instances(enum) :
          Step(p, [pc |-> "done", op |-> "MarshalText", arg |-> e, res |-> MarshalText(enum, e, e)],
               locals)

ConcNext ==
    \/ \E p \in 1..MaxCallers : BeginSQLScan(p)
    \/ \E p \in 1..MaxCallers : ScanStep(p)
    \/ \E p \in 1..MaxCallers : LookupStep(p)
    \/ \E p \in 1..MaxCallers : EncodeStep(p)

Concurrent == Init /\ [][ConcNext]_vars

(***************************************************************************)
(* Properties                                                              *)
(***************************************************************************)
\* C1: for every primitive kind K and every value v of K,
\* parseBinaryValue(anyToBinary(v)) into a fresh K succeeds and leaves it
\* equal to v.
C1_BinaryRoundTrip ==
    (pc = "called" /\ call.op = "parseBinaryValue" /\ chain.kind # "nil")
        => (err.type = "nil" /\ target = chain)

\* C2: for every primitive kind K and every value v of K,
\* parseStringValue(anyToString(v)) into a fresh K succeeds and leaves it
\* equal to v.
C2_TextRoundTrip ==
    (pc = "called" /\ call.op = "parseStringValue" /\ chain.kind # "nil")
        => (err.type = "nil" /\ target = chain)

C2_Witness ==
    /\ pc = "called" /\ call.op = "parseStringValue"
    /\ chain = V("int64", MinOf("int64"))
    /\ call.arg.val = Lit.mini64
    /\ target = chain

C4_UnknownCarriesInput ==
    (pc = "called" /\ err.type = "unknown constants") =>
        /\ ~ret.ok
        /\ call.op \in {"UnmarshalText", "UnmarshalJSON", "UnmarshalBinary"} =>
              err.args[1].val = call.arg.val
        /\ call.op = "SQLScan" => err.args[1] = call.arg
        /\ call.op = "UnmarshalYAML" => Sprint(err.args[1]) = Sprint(call.arg)

\* C5: parseBinaryValue into a fixed-width kind of w bytes fails with the
\* insufficient-data error when given n bytes, 0 < n < w.
C5_InsufficientData ==
    (pc = "called" /\ call.op = "parseBinaryValue") =>
        LET n == Len(call.arg.val)
            w == CASE old.kind \in {"int16", "uint16"} -> 2
                   [] old.kind \in {"int32", "uint32", "float32"} -> 4
                   [] old.kind \in {"int64", "uint64", "int", "uint", "float64"} -> 8
                   [] OTHER -> 1
        IN (0 < n /\ n < w) => err.type = "insufficient data"

C5_Witness ==
    /\ pc = "called" /\ call.op = "parseBinaryValue"
    /\ old.kind = "int" /\ Len(call.arg.val) = 7
    /\ err.type = "insufficient data"

\* C6: parseBinaryValue given zero bytes fails with the empty-data error for
\* every target kind, string and []byte included, and writes nothing.
C6_EmptyData ==
    (pc = "called" /\ call.op = "parseBinaryValue" /\ call.arg.val = <<>>)
        => (err.type = "empty binary data" /\ target = old)

C6_Witness ==
    /\ pc = "called" /\ call.op = "parseBinaryValue"
    /\ call.arg.val = <<>>
    /\ old = V("string", Lit.test)
    /\ err.type = "empty binary data"
    /\ target = old

\* C7: the slice anyToBinary returns for a []byte and the slice
\* parseBinaryValue stores into a []byte share no storage with the input: a
\* write to either side leaves the other side's bytes as they were.
C7_NoSharedStorage ==
    [][/\ (wrote' # 0 /\ wrote' = inBuf) => heap'[outBuf] = heap[outBuf]
       /\ (wrote' # 0 /\ wrote' = outBuf) => heap'[inBuf] = heap[inBuf]]_vars

C7_Witness ==
    /\ pc = "called" /\ call.op = "anyToBinary"
    /\ wrote # 0 /\ wrote = outBuf
    /\ heap[outBuf] # call.arg.val
    /\ heap[inBuf] = call.arg.val

\* C8: Scan(nil) succeeds and leaves the target as it was, for every target
\* kind, time included.
C8_ScanNil ==
    (pc = "called" /\ call.op = "Scan" /\ call.arg.kind = "nil")
        => (err.type = "nil" /\ target = old)

C8_Witness ==
    /\ pc = "called" /\ call.op = "Scan" /\ call.arg.kind = "nil"
    /\ old = V("time", 1)
    /\ err.type = "nil" /\ target = old

\* C9: Scan of an integer source into an integer target of kind K succeeds
\* and stores the source's value whenever the value is within K's range, and
\* fails, storing nothing, whenever it is not.
C9_IntegerRange ==
    (pc = "called" /\ call.op = "Scan"
        /\ call.arg.kind \in IntKinds /\ old.kind \in IntKinds) =>
        IF InRange(old.kind, call.arg.val)
        THEN err.type = "nil" /\ target.val = call.arg.val
        ELSE err.type # "nil" /\ target = old

\* C10: Scan into an integer target stores 1 for true and 0 for false,
\* stores a float truncated toward zero (12.5 gives 12, -12.5 gives -12)
\* when that fits the target, and fails for a string or []byte that is not
\* a base-10 integer numeral, the empty one included.
C10_ScanIntoInteger ==
    (pc = "called" /\ call.op = "Scan" /\ old.kind \in IntKinds) =>
        /\ call.arg.kind = "bool" =>
              /\ err.type = "nil"
              /\ target.val = (IF call.arg.val THEN BigOne ELSE BigZero)
        /\ call.arg.kind \in FloatKinds =>
              LET q == Quarters(call.arg.kind, call.arg.val)
              IN \E n \in 0..400 :
                    /\ 4 * n <= Abs(q) /\ Abs(q) < 4 * n + 4
                    /\ \E t \in {SmallBig(IF q < 0 THEN 0 - n ELSE n)} :
                          InRange(old.kind, t) => (err.type = "nil" /\ target.val = t)
        /\ call.arg.kind \in {"string", "bytes"} =>
              LET s == call.arg.val
                  d == IF s # <<>> /\ s[1] \in {43, 45} THEN Tail(s) ELSE s
              IN (d = <<>> \/ \E i \in 1..Len(d) : ~IsDigit(d[i]))
                    => (err.type # "nil" /\ target = old)

C10_Witness ==
    /\ pc = "called" /\ call.op = "Scan"
    /\ call.arg = V("float64", FloatBits("float64", 50))
    /\ old.kind = "int64"
    /\ err.type = "nil" /\ target.val = SmallBig(12)

\* C11: Scan of a non-nil source into a string target succeeds exactly when
\* the source is a string or a []byte, and then the target holds the same
\* characters; every other source kind is refused with a conversion error
\* and the target keeps its value.
C11_ScanIntoString ==
    (pc = "called" /\ call.op = "Scan" /\ old.kind = "string"
        /\ call.arg.kind \notin {"nil", "nilptr"}) =>
        IF call.arg.kind \in {"string", "bytes"}
        THEN err.type = "nil" /\ target = V("string", call.arg.val)
        ELSE /\ err.type \in {"cannot convert to string", "cannot convert slice to string"}
             /\ target = old

C11_Witness ==
    /\ pc = "called" /\ call.op = "Scan"
    /\ call.arg = V("bytes", Lit.Active)
    /\ old = V("string", Lit.test)
    /\ err.type = "nil" /\ target = V("string", Lit.Active)

\* C12: Scan of a numeric source into a bool target succeeds for every
\* signed, unsigned and float source kind and stores true for a nonzero
\* value and false for zero; a string or []byte source stores the boolean
\* its text spells (1, t, T, TRUE, true, True; 0, f, F, FALSE, false, False)
\* and fails, storing nothing, for any other text.
C12_ScanIntoBool ==
    (pc = "called" /\ call.op \in {"Scan", "ScanTyped"} /\ old.kind = "bool") =>
        /\ call.arg.kind \in IntKinds =>
              (err.type = "nil" /\ target.val = (call.arg.val.mag # <<>>))
        /\ call.arg.kind \in FloatKinds =>
              (err.type = "nil" /\ target.val = (Quarters(call.arg.kind, call.arg.val) # 0))
        /\ call.arg.kind \in {"string", "bytes"} =>
              IF call.arg.val \in {S_1, Lit.t, Lit.capT, Lit.upTRUE, S_true, Lit.capTrue}
              THEN err.type = "nil" /\ target.val = TRUE
              ELSE IF call.arg.val \in {S_0, Lit.f, Lit.capF, Lit.upFALSE, S_false, Lit.capFalse}
              THEN err.type = "nil" /\ target.val = FALSE
              ELSE err.type # "nil" /\ target = old

\* C13: a Scan of a non-nil source that no conversion rule covers (a target
\* that is not a string, an integer, a float, a bool or a time, or a source
\* kind the target's rule does not list) fails, stores nothing, and returns
\* an unsupported-conversion error that names the source kind and the
\* target kind.
C13_UnsupportedConversion ==
    LET src == call.arg.kind
        tgt == old.kind
        listed ==
            CASE tgt = "string" -> {"string", "bytes"}
              [] tgt \in IntKinds -> IntKinds \cup FloatKinds \cup {"bool", "string", "bytes"}
              [] tgt \in FloatKinds -> IntKinds \cup FloatKinds \cup {"string", "bytes"}
              [] tgt = "bool" -> IntKinds \cup FloatKinds \cup {"bool", "string", "bytes"}
              [] tgt = "time" -> {"time", "string", "bytes"}
              [] OTHER -> {}
        family ==
            CASE tgt = "string" -> {"cannot convert to string", "cannot convert slice to string"}
              [] tgt \in IntKinds -> {"cannot convert to integer", "cannot convert slice to integer"}
              [] tgt \in FloatKinds -> {"cannot convert to float", "cannot convert slice to float"}
              [] tgt = "bool" -> {"cannot convert to bool", "cannot convert slice to bool"}
              [] tgt = "time" -> {"cannot convert to time.Time"}
              [] OTHER -> {"unsupported target type"}
        named(k) == \E i \in 1..Len(err.args) : err.args[i] = TypeName(k)
    IN (pc = "called" /\ call.op = "Scan" /\ src \notin {"nil", "nilptr"} /\ src \notin listed) =>
          /\ err.type \in family /\ target = old
          /\ (named(src) \/ (src = "ints" /\ named("int")))
          /\ (err.type = "unsupported target type" => named(tgt))

\* C14: anyToBinary of an integer of a w-bit kind returns exactly w/8 bytes
\* (8 for int and uint), the value in two's complement with the most
\* significant byte first (int16 0x1234 gives 0x12 0x34), and of a bool the
\* single byte 1 for true and 0 for false; nothing precedes or follows
\* these bytes.
C14_BinaryLayout ==
    (pc = "called" /\ call.op = "anyToBinary") =>
        /\ call.arg.kind \in IntKinds =>
              /\ err.type = "nil"
              /\ Len(out.val) = (CASE call.arg.kind \in {"int8", "uint8"} -> 1
                                   [] call.arg.kind \in {"int16", "uint16"} -> 2
                                   [] call.arg.kind \in {"int32", "uint32"} -> 4
                                   [] OTHER -> 8)
              /\ call.arg.val = (IF call.arg.kind \in SignedKinds THEN FromSigned(out.val)
                                 ELSE FromUnsigned(out.val))
        /\ call.arg = V("int16", SmallBig(4660)) => out.val = <<18, 52>>
        /\ call.arg.kind = "bool" =>
              (err.type = "nil" /\ out.val = (IF call.arg.val THEN <<1>> ELSE <<0>>))

C14_Witness ==
    /\ pc = "called" /\ call.op = "anyToBinary"
    /\ call.arg = V("int32", SmallBig(-129))
    /\ err.type = "nil" /\ out.val = <<255, 255, 255, 127>>

\* C15: parseStringValue of the decimal numeral of an integer x into a target
\* of integer kind K succeeds and stores exactly x when x is within K's
\* range, both ends of the range included, and fails, storing nothing, when
\* x is outside it (1000 for int8, 256 for uint8, any negative numeral for
\* an unsigned kind).
C15_ParseIntegerRange ==
    (pc = "called" /\ call.op = "parseStringValue" /\ old.kind \in IntKinds) =>
        \A x \in IntSamples \cup {Big(FALSE, Pow2Mag(64))}
                 \cup {SmallBig(n) : n \in {-128, -11, -10, 10, 11, 127, 128, 255, 1000}} :
            (call.arg.val = FormatInt(x)) =>
                IF InRange(old.kind, x)
                THEN err.type = "nil" /\ target.val = x
                ELSE err.type # "nil" /\ target = old

C15_Witness ==
    /\ pc = "called" /\ call.op = "parseStringValue"
    /\ call.arg = V("string", Lit.m128) /\ old.kind = "int8"
    /\ err.type = "nil" /\ target.val = SmallBig(-128)

\* C16: findNameOrValue answers from the lookup by name alone when isName
\* is set and from the lookup by value alone when it is not: if that lookup
\* finds a member, the result is a pointer to that member and no error;
\* if it does not, the result is no instance and the unknown-constant
\* error carrying src.
C16_FindNameOrValue ==
    (pc = "called" /\ call.op = "findNameOrValue") =>
        LET a == call.arg.val
            hits == {i \in 1..Len(enum.members) :
                        IF a.isName THEN enum.members[i].name = a.value.val
                        ELSE enum.members[i].val = a.value.val}
        IN IF hits # {}
           THEN /\ err.type = "nil" /\ ret.ok
                /\ \E i \in hits : ret.inst = V(enum.R, enum.members[i].val)
           ELSE /\ ~ret.ok
                /\ err.type = "unknown constants" /\ err.args = <<a.src>>

\* by name, "Pending" is the member whose value is "", although it is also
\* the value of Done
C16_Witness ==
    /\ pc = "called" /\ call.op = "findNameOrValue" /\ enum.R = "string"
    /\ call.arg.val.isName /\ call.arg.val.value = V("string", Lit.Pending)
    /\ err.type = "nil" /\ ret = PtrTo(V("string", <<>>))

\* C17: under the value format UnmarshalYAML decodes the node into an R
\* and looks that value up; when the decode fails it decodes the node into
\* an untyped value, converts it with convertToTargetType and looks the
\* converted value up.  When the untyped decode fails too, or the
\* conversion fails, it returns no instance and an error wrapping the
\* failure, and no lookup has answered.
C17_YAMLValueOrder ==
    (pc = "called" /\ call.op = "UnmarshalYAML" /\ enum.format = "FormatValue") =>
        LET direct == Decode(call.arg, V(enum.R, Zero(enum.R)))
            untyped == Decode(call.arg, V("any", <<>>))
            conv == convertToTargetType(call.arg, V(enum.R, Zero(enum.R)))
            lookedUp(v) ==
                IF \E i \in 1..Len(enum.members) : enum.members[i].val = v
                THEN err.type = "nil" /\ ret = PtrTo(V(enum.R, v))
                ELSE err.type = "unknown constants" /\ ~ret.ok
        IN IF direct.err.type = "nil" THEN lookedUp(direct.val)
           ELSE IF untyped.err.type # "nil"
           THEN ~ret.ok /\ err.type = "failed to decode YAML node" /\ err.args = direct.err.args
           ELSE IF conv.err.type # "nil"
           THEN /\ ~ret.ok
                /\ err.type = "failed to convert YAML value to target type"
                /\ err.args = conv.err.args
           ELSE lookedUp(conv.val)

\* a string node: the decode into int fails, the conversion fails, and the
\* zero value left in the variable is not looked up
C17_Witness ==
    /\ pc = "called" /\ call.op = "UnmarshalYAML" /\ enum.format = "FormatValue"
    /\ call.arg = V("string", Lit.Active)
    /\ ~ret.ok /\ err.type = "failed to convert YAML value to target type"

\* C18: convertToTargetType of an integer value into a target of integer
\* kind K stores the value when it is within K's range (int64 42 into int
\* gives 42) and otherwise returns an error and stores nothing (300 into
\* int8, 70000 into int16, -1 into uint16): a wrapped value is never stored.
C18_ConvertIntegerRange ==
    (pc = "called" /\ call.op = "convertToTargetType"
        /\ call.arg.kind \in IntKinds /\ old.kind \in IntKinds) =>
        IF InRange(old.kind, call.arg.val)
        THEN err.type = "nil" /\ target.val = call.arg.val
        ELSE err.type # "nil" /\ target = old

\* C19: under the name format SQLValue returns the instance's Name() as a
\* string.  Under the value format it returns an int64 numerically equal to
\* the raw value for every integer kind, signed or unsigned, a float64 for
\* a float, a bool, a string or a []byte unchanged, and for a raw value of
\* any other kind its JSON encoding as a string.
C19_SQLValue ==
    (pc = "called" /\ call.op = "SQLValue") =>
        /\ err.type = "nil"
        /\ IF enum.format = "FormatName"
           THEN /\ out.kind = "string"
                /\ \A i \in 1..Len(enum.members) :
                      enum.members[i].val = call.arg.val => out.val = enum.members[i].name
           ELSE CASE call.arg.kind \in IntKinds ->
                       out.kind = "int64" /\ out.val = call.arg.val
                  [] call.arg.kind \in FloatKinds ->
                       /\ out.kind = "float64"
                       /\ Quarters("float64", out.val) = Quarters(call.arg.kind, call.arg.val)
                  [] call.arg.kind \in {"bool", "string", "bytes"} -> out = call.arg
                  [] OTHER -> out = V("string", S_null)

\* C20: no call of a codec or of a primitive operation aborts: whatever the
\* source value and the target kind, a call that fails returns an error.
C20_NoPanic == pc = "called" => err.type # "panic"

\* C21: parseStringValue into a bool target succeeds exactly for the texts
\* 1, t, T, TRUE, true, True, storing true, and 0, f, F, FALSE, false,
\* False, storing false; for every other text it fails and the target keeps
\* its value.
C21_ParseBoolean ==
    (pc = "called" /\ call.op = "parseStringValue" /\ old.kind = "bool") =>
        IF call.arg.val \in {<<49>>, <<116>>, <<84>>, <<84, 82, 85, 69>>,
                             <<116, 114, 117, 101>>, <<84, 114, 117, 101>>}
        THEN err.type = "nil" /\ target = V("bool", TRUE)
        ELSE IF call.arg.val \in {<<48>>, <<102>>, <<70>>, <<70, 65, 76, 83, 69>>,
                                  <<102, 97, 108, 115, 101>>, <<70, 97, 108, 115, 101>>}
        THEN err.type = "nil" /\ target = V("bool", FALSE)
        ELSE err.type # "nil" /\ target = old

C21_Witness ==
    /\ pc = "called" /\ call.op = "parseStringValue"
    /\ call.arg = V("string", <<70>>) /\ old = V("bool", TRUE)
    /\ err.type = "nil" /\ target = V("bool", FALSE)

C23_Interleaving ==
    \A p \in 1..MaxCallers :
        procs[p].pc = "done" =>
            IF procs[p].op = "SQLScan"
            THEN procs[p].res = SQLScan(enum, procs[p].arg)
            ELSE procs[p].res = MarshalText(enum, procs[p].arg, procs[p].arg)

\* a SQLScan that found its member while another caller's SQLScan had filled
\* its own variable with something else and was about to look it up
C23_Witness ==
    /\ procs[1].pc = "done" /\ procs[1].op = "SQLScan"
    /\ procs[1].arg = V("string", Lit.Active)
    /\ procs[1].res.ret.ok
    /\ procs[2].pc = "lookup" /\ procs[2].op = "SQLScan"
    /\ procs[2].arg = V("string", S_1)

(***************************************************************************)
(* C24: for every member m of an enum type, under the name format and      *)
(* under the value format and for every raw kind,                          *)
(* UnmarshalText(MarshalText(m, m.Val())) succeeds and returns m.          *)
(***************************************************************************)
C24_TextFormatRoundTrip ==
    (/\ pc = "called" /\ call.op = "UnmarshalText" /\ chain.kind # "nil"
     /\ \E i \in 1..Len(enum.members) : chain = V(enum.R, enum.members[i].val))
    => (err.type = "nil" /\ ret = PtrTo(chain))

\* the greatest uint64 member, through its decimal text and back
C24_Witness ==
    /\ pc = "called" /\ call.op = "UnmarshalText"
    /\ enum.R = "uint64" /\ enum.format = "FormatValue"
    /\ chain = V("uint64", MaxOf("uint64"))
    /\ call.arg.val = Lit.maxu64
    /\ ret = PtrTo(chain)

(***************************************************************************)
(* C25: for every member m of an enum type, under the name format and      *)
(* under the value format, for every raw kind and every raw value, a       *)
(* zero-length string among them,                                          *)
(* UnmarshalBinary(MarshalBinary(m, m.Val())) succeeds and returns m.      *)
(***************************************************************************)
C25_BinaryFormatRoundTrip ==
    (/\ pc = "called" /\ call.op = "UnmarshalBinary" /\ chain.kind # "nil"
     /\ \E i \in 1..Len(enum.members) : chain = V(enum.R, enum.members[i].val))
    => (err.type = "nil" /\ ret = PtrTo(chain))

(***************************************************************************)
(* C26: for every member m of an enum type, under the name format and      *)
(* under the value format, for integer, float, boolean and string raw      *)
(* kinds, UnmarshalJSON(MarshalJSON(m, m.Val())) succeeds and returns m.   *)
(***************************************************************************)
C26_JSONFormatRoundTrip ==
    (/\ pc = "called" /\ call.op = "UnmarshalJSON" /\ chain.kind # "nil"
     /\ \E i \in 1..Len(enum.members) : chain = V(enum.R, enum.members[i].val))
    => (err.type = "nil" /\ ret = PtrTo(chain))

(***************************************************************************)
(* C27: for every member m of an enum type of an integer raw kind, under   *)
(* the name format and under the value format and for every raw value up   *)
(* to the greatest unsigned 64-bit one, SQLScan(SQLValue(m)) succeeds and  *)
(* returns m.                                                              *)
(***************************************************************************)
C27_SQLRoundTrip ==
    (/\ pc = "called" /\ call.op = "SQLScan" /\ chain.kind # "nil"
     /\ enum.R \in IntKinds
     /\ \E i \in 1..Len(enum.members) : chain = V(enum.R, enum.members[i].val))
    => (err.type = "nil" /\ ret = PtrTo(chain))

(***************************************************************************)
(* C28: UnmarshalJSON, UnmarshalText, UnmarshalBinary, UnmarshalYAML and   *)
(* SQLScan return exactly one of an instance pointer and an error: the     *)
(* pointer is non-nil exactly when the error is nil, and a pointer         *)
(* returned is the one findNameOrValue produced, to a member of the enum.  *)
(***************************************************************************)
C28_PointerOrError ==
    (pc = "called" /\ call.op \in {"UnmarshalJSON", "UnmarshalText", "UnmarshalBinary",
                                     "UnmarshalYAML", "SQLScan"}) =>
        /\ ret.ok <=> err.type = "nil"
        /\ ~ret.ok => ret = NilPtr
        /\ ret.ok => \E i \in 1..Len(enum.members) :
              /\ ret.inst = V(enum.R, enum.members[i].val)
              /\ ret = findNameOrValue(enum,
                                       IF enum.format = "FormatName"
                                       THEN V("string", enum.members[i].name) ELSE ret.inst,
                                       enum.format = "FormatName", call.arg).ret

\* UnmarshalBinary of the bytes of a name under the name format
C28_Witness ==
    /\ pc = "called" /\ call.op = "UnmarshalBinary"
    /\ enum.R = "int" /\ enum.format = "FormatName"
    /\ call.arg.val = Lit.Active
    /\ chain.kind = "nil"
    /\ err.type = "nil"
    /\ ret = PtrTo(V("int", BigOne))

(***************************************************************************)
(* C29: whenever Scan, of either scanner, parseStringValue or              *)
(* parseBinaryValue returns an error for a target of a primitive kind, the *)
(* target holds the value it held before the call.                         *)
(***************************************************************************)
C29_FailureLeavesTarget ==
    (/\ pc = "called"
     /\ call.op \in {"Scan", "ScanTyped", "parseStringValue", "parseBinaryValue"}
     /\ old.kind \in PrimitiveKinds
     /\ err.type # "nil")
    => target = old

\* 300 scanned into an int8 variable holding 7: refused, and 7 is still there
C29_Witness ==
    /\ pc = "called" /\ call.op = "Scan"
    /\ call.arg.kind = "int" /\ call.arg.val = SmallBig(300)
    /\ old.kind = "int8" /\ old.val = SmallBig(7)
    /\ err.type # "nil"
    /\ target.kind = "int8" /\ target.val = SmallBig(7)

(***************************************************************************)
(* C30: SQLScan of a nil source does not fail at the scan and looks up the *)
(* zero value.  Under the value format it returns the member whose raw     *)
(* value is the zero of R when there is one, and the unknown-constant      *)
(* error otherwise; under the name format it looks up the empty name and   *)
(* fails with the unknown-constant error unless a member has that name.    *)
(***************************************************************************)
C30_SQLScanNil ==
    (pc = "called" /\ call.op = "SQLScan" /\ call.arg.kind = "nil") =>
        IF enum.format = "FormatValue"
        THEN IF \E i \in 1..Len(enum.members) : enum.members[i].val = Zero(enum.R)
             THEN err.type = "nil" /\ ret = PtrTo(V(enum.R, Zero(enum.R)))
             ELSE err.type = "unknown constants" /\ ret = NilPtr
        ELSE IF \E i \in 1..Len(enum.members) : enum.members[i].name = <<>>
             THEN /\ err.type = "nil" /\ ret.ok
                  /\ \E i \in 1..Len(enum.members) :
                        /\ enum.members[i].name = <<>>
                        /\ ret.inst = V(enum.R, enum.members[i].val)
             ELSE err.type = "unknown constants" /\ ret = NilPtr

\* a nil column read into a uint8-backed enum under the value format: the
\* member with raw value 0
C30_Witness ==
    /\ pc = "called" /\ call.op = "SQLScan" /\ call.arg.kind = "nil"
    /\ enum.R = "uint8" /\ enum.format = "FormatValue"
    /\ err.type = "nil"
    /\ ret = PtrTo(V("uint8", BigZero))
====
